---- MODULE Spec2Model ----
(***************************************************************************)
(* Model of the lc3-toolchain source-model pipeline: the raw items of a    *)
(* file, the attachment transform (both copies: ast/processed_ast.rs and   *)
(* fmt_ast.rs), the layout formatter and the style linter.                 *)
(*                                                                         *)
(* Text is a sequence of one-character strings; "\n" is the line feed.     *)
(* Option<T> is a sequence of length 0 (None) or 1 (Some).                 *)
(***************************************************************************)
EXTENDS Integers, Sequences, FiniteSets, TLC

VARIABLES
    copy,                   \* which StandardTransform is run: "processed_ast" or "fmt_ast"
    hybrid_inline_comment,  \* StandardTransform.hybrid_inline_comment
    file_content,           \* the text of the file
    program,                \* raw_ast::Program.items
    label_buffer,           \* StandardTransform.label_buffer (top of the stack last)
    forward_next_comment,   \* StandardTransform.forward_next_comment
    labelled_items,         \* transform's local labelled_items
    res,                    \* transform's local res (Vec<Option<ProgramItem>>)
    idx,                    \* position of the running loop of transform
    items,                  \* Program.items returned by transform
    pc,                     \* the step the run is at
    style,                  \* Formatter.style
    buffer,                 \* Formatter.buffer
    pass,                   \* 1: the file is formatted; 2: its formatted text is
    first,                  \* the bytes the first pass produced
    program1,               \* the raw items of the first pass
    lint_style,             \* StyleCheckerVisitor.style
    errors,                 \* the errors Linter::check has collected
    lookup_span,            \* the Span get_line_and_column is called with
    line_column,            \* what get_line_and_column returned
    tool,                   \* the binary that runs: "fmt" (fmt.rs) or "lint" (bin/lint.rs)
    CHECK_MODE,             \* fmt.rs CHECK_MODE (--check)
    print_config,           \* matches.get_flag("print-config")
    files,                  \* the files of file_path on disk: content, original, status
    path_idx,               \* position of main's loop over file_path
    FORMATTED_COUNT,        \* fmt.rs FORMATTED_COUNT
    FILE_DIFF_COUNT,        \* fmt.rs FILE_DIFF_COUNT
    success,                \* bin/lint.rs main's success
    exit_code,              \* None while the process runs, then Some(code)
    output,                 \* what the run has printed, in order
    results,                \* per file visited by the loop: what was run on it
    fmt_lines,              \* format's local lines: (labels, body, comments, space)
    newlines_after,         \* per line written: the line feeds the buffer ends with
    mnemonic,               \* the text of the Br pair parse_instruction is given
    br_tp                   \* None, Some(BrType), or Some("unreachable") for the panic

tvars == <<copy, hybrid_inline_comment, file_content, program, label_buffer,
           forward_next_comment, labelled_items, res, idx, items>>

fvars == <<style, buffer, pass, first, program1>>

lvars == <<lint_style, errors>>

kvars == <<lookup_span, line_column>>

\* The variables of the runs other than the transform, the formatter and the
\* linter.
cvars == <<tool, CHECK_MODE, print_config, files, path_idx, FORMATTED_COUNT,
           FILE_DIFF_COUNT, success, exit_code, output, results>>

pvars == <<fmt_lines, newlines_after>>

bvars == <<mnemonic, br_tp>>

xvars == <<kvars, cvars, pvars, bvars>>

vars == <<tvars, fvars, lvars, xvars, pc>>

-----------------------------------------------------------------------------
(* Bounds *)

MaxItems == 3

MaxFmtItems == 4

MaxIdLen == 3

-----------------------------------------------------------------------------
(* Generic helpers *)

None == <<>>
Some(x) == <<x>>

RECURSIVE Flatten(_)
Flatten(ss) == IF ss = <<>> THEN <<>> ELSE Head(ss) \o Flatten(Tail(ss))

RECURSIVE Reverse(_)
Reverse(s) == IF s = <<>> THEN <<>> ELSE Append(Reverse(Tail(s)), Head(s))

RECURSIVE Join(_, _)
Join(ss, sep) ==
    IF ss = <<>> THEN <<>>
    ELSE IF Len(ss) = 1 THEN ss[1]
    ELSE ss[1] \o sep \o Join(Tail(ss), sep)

RECURSIVE SumLen(_)
SumLen(ss) == IF ss = <<>> THEN 0 ELSE Len(Head(ss)) + SumLen(Tail(ss))

Spaces(n) == [i \in 1..n |-> " "]

Range(s) == {s[i] : i \in 1..Len(s)}

-----------------------------------------------------------------------------
(* The tokens the input files are written with *)

Token(v) ==
    CASE v = "La"   -> [kind |-> "Label", type |-> "", content |-> <<"a">>, operands |-> <<>>]
      [] v = "Lb"   -> [kind |-> "Label", type |-> "", content |-> <<"b", ":">>, operands |-> <<>>]
      [] v = "RET"  -> [kind |-> "Instruction", type |-> "Ret",
                        content |-> <<"R", "E", "T">>, operands |-> <<>>]
      [] v = "NOT"  -> [kind |-> "Instruction", type |-> "Not",
                        content |-> <<"n", "o", "t">>,
                        operands |-> << <<"R", "1">>, <<"R", "2">> >>]
      [] v = "ORIG" -> [kind |-> "Directive", type |-> "ORIG",
                        content |-> <<".", "O", "R", "I", "G">>,
                        operands |-> << <<"x", "3">> >>]
      [] v = "END"  -> [kind |-> "Directive", type |-> "END",
                        content |-> <<".", "E", "N", "D">>, operands |-> <<>>]
      [] v = "FILL" -> [kind |-> "Directive", type |-> "FILL",
                        content |-> <<".", "F", "I", "L", "L">>,
                        operands |-> << <<"1">> >>]
      [] v = "Cmt"  -> [kind |-> "Comment", type |-> "", content |-> <<";", "c">>, operands |-> <<>>]
      [] v = "Cmt2" -> [kind |-> "Comment", type |-> "",
                        content |-> <<";", " ", "d">>, operands |-> <<>>]

\* The text of one item as it stands in the file: the mnemonic, then the
\* operands separated by commas.
ItemText(t) ==
    IF t.operands = <<>> THEN t.content
    ELSE t.content \o <<" ">> \o Join(t.operands, <<",">>)

\* A layout is a sequence of [v, same]: the token and whether it stands on
\* the line of the item before it. A comment runs to the end of its line.
ValidLayout(l) ==
    /\ Len(l) > 0 => ~l[1].same
    /\ \A i \in 2..Len(l) : l[i - 1].v.kind = "Comment" => ~l[i].same

Layouts(V, n) ==
    {l \in UNION {[1..k -> [v : V, same : BOOLEAN]] : k \in 0..n} : ValidLayout(l)}

RECURSIVE StartOf(_, _)
StartOf(l, i) ==
    IF i = 1 THEN 0 ELSE StartOf(l, i - 1) + Len(ItemText(l[i - 1].v)) + 1

SourceText(l) ==
    Flatten([i \in 1..Len(l) |->
        (IF i = 1 THEN <<>> ELSE IF l[i].same THEN <<" ">> ELSE <<"\n">>)
        \o ItemText(l[i].v)])

Span(s, e) == [start |-> s, end |-> e]

OperandsAt(ops, off) ==
    [j \in 1..Len(ops) |->
        LET s == off + SumLen(SubSeq(ops, 1, j - 1)) + (j - 1)
        IN  [content |-> ops[j], span |-> Span(s, s + Len(ops[j]))]]

\* raw_ast::ProgramItem of the i-th item of the layout, as parse_ast builds
\* it from the grammar's pairs: content and span are those of the token.
RawItem(l, i) ==
    LET t == l[i].v
        s == StartOf(l, i)
    IN  [kind |-> t.kind, type |-> t.type, content |-> t.content,
         span |-> Span(s, s + Len(t.content)),
         operands |-> OperandsAt(t.operands, s + Len(t.content) + 1)]

RawProgram(l) == [i \in 1..Len(l) |-> RawItem(l, i)]

-----------------------------------------------------------------------------
(* FormatStyle *)

DefaultStyle ==
    [indent_directive |-> 3, indent_instruction |-> 4, indent_label |-> 0,
     indent_min_comment_from_block |-> 1, space_block_to_comment |-> 1,
     space_comment_stick_to_body |-> 0, space_from_label_block |-> 1,
     space_from_start_end_block |-> 1, colon_after_label |-> TRUE]

NoColonStyle ==
    [indent_directive |-> 1, indent_instruction |-> 2, indent_label |-> 1,
     indent_min_comment_from_block |-> 2, space_block_to_comment |-> 2,
     space_comment_stick_to_body |-> 1, space_from_label_block |-> 2,
     space_from_start_end_block |-> 1, colon_after_label |-> FALSE]

FlatStyle ==
    [indent_directive |-> 0, indent_instruction |-> 0, indent_label |-> 0,
     indent_min_comment_from_block |-> 0, space_block_to_comment |-> 0,
     space_comment_stick_to_body |-> 0, space_from_label_block |-> 0,
     space_from_start_end_block |-> 0, colon_after_label |-> TRUE]

Styles == {DefaultStyle, NoColonStyle, FlatStyle}

-----------------------------------------------------------------------------
(* LineColumnLookTable *)

\* str::lines(): the text split at "\n", a "\r" before the "\n" dropped,
\* and no empty last line after a final "\n".
RECURSIVE SplitLines(_, _)
SplitLines(text, cur) ==
    IF text = <<>> THEN (IF cur = <<>> THEN <<>> ELSE <<cur>>)
    ELSE IF Head(text) = "\n"
         THEN <<(IF cur # <<>> /\ cur[Len(cur)] = "\r"
                 THEN SubSeq(cur, 1, Len(cur) - 1) ELSE cur)>>
              \o SplitLines(Tail(text), <<>>)
         ELSE SplitLines(Tail(text), Append(cur, Head(text)))

Lines(text) == SplitLines(text, <<>>)

RECURSIVE LineStart(_, _)
LineStart(lines, n) ==
    IF n = 1 THEN 0 ELSE LineStart(lines, n - 1) + Len(lines[n - 1]) + 1

\* LineColumnLookTable::new: one entry per line, keyed by char_count.
LookTable(text) ==
    LET lines == Lines(text)
    IN  [lines |-> lines,
         line_start_indices |->
             {[start_index |-> LineStart(lines, n), line_number |-> n] :
                 n \in 1..Len(lines)}]

\* A lookup whose ranges are closed at the line terminator's successor: the
\* range of a line reaches the first offset of the next one.
LineColumnsOf_closed_range(table, span) ==
    {[line |-> e.line_number, column |-> span.start - e.start_index + 1] :
        e \in {x \in table.line_start_indices :
                 /\ span.start >= x.start_index
                 /\ span.start <= x.start_index + Len(table.lines[x.line_number]) + 1}}

\* get_line_and_column: the entries are visited in the hash map's order and
\* the first one whose range holds the offset is returned; the set of the
\* results that some order gives. Empty: unreachable!() is hit.
LineColumnsOf(table, span) ==
    {[line |-> e.line_number, column |-> span.start - e.start_index + 1] :
        e \in {x \in table.line_start_indices :
                 /\ span.start >= x.start_index
                 /\ span.start < x.start_index + Len(table.lines[x.line_number])}}

at_the_same_line(a, b) == a.line = b.line

-----------------------------------------------------------------------------
(* StandardTransform *)

NoLc == [line |-> 0, column |-> 0]

AsLabel(item) == [content |-> item.content, span |-> item.span]

\* The labels vector filled by `while let Some(item) = label_buffer.pop()`.
PopAll(buf) == Reverse(buf)

MkItem(kind, labels, body, comment, lc) ==
    [kind |-> kind, labels |-> labels, body |-> body, comment |-> comment, lc |-> lc]

\* hybrid_label with a flush that copies the labels and leaves them in the
\* buffer.
hybrid_label_keeps_buffer(buf, item) ==
    CASE item.kind = "Label" ->
            [buffer |-> Append(buf, AsLabel(item)), out |-> None]
      [] item.kind \in {"Instruction", "Directive"} ->
            [buffer |-> buf,
             out |-> Some(MkItem(item.kind, PopAll(buf), item, None, NoLc))]
      [] item.kind = "Comment" ->
            [buffer |-> buf, out |-> Some(MkItem("Comment", <<>>, item, None, NoLc))]

\* hybrid_label: the buffer after the call and the Option it returns.
hybrid_label(buf, item) ==
    CASE item.kind = "Label" ->
            [buffer |-> Append(buf, AsLabel(item)), out |-> None]
      [] item.kind \in {"Instruction", "Directive"} ->
            [buffer |-> <<>>,
             out |-> Some(MkItem(item.kind, PopAll(buf), item, None, NoLc))]
      [] item.kind = "Comment" ->
            [buffer |-> buf, out |-> Some(MkItem("Comment", <<>>, item, None, NoLc))]

\* transform without its lines 59-65: the labels left in the buffer are
\* forgotten.
push_eol_forgotten(mapped, buf) == mapped

\* transform, lines 59-65: when the buffer is not empty after the map, its
\* labels are popped into an EOL item pushed after the mapped items.
push_eol(mapped, buf) ==
    IF buf # <<>>
    THEN Append(mapped, Some(MkItem("EOL", PopAll(buf), None, None, NoLc)))
    ELSE mapped

\* add_line_info: the items it may return (one per result of the lookup).
add_line_info(table, item) ==
    IF item.kind = "EOL" THEN {item}
    ELSE {[item EXCEPT !.lc = lc] : lc \in LineColumnsOf(table, item.body.span)}

\* hybrid_comment without the test of at_the_same_line: a statement adopts
\* the comment after it wherever it stands.
hybrid_comment_any_line(forward, curr, next) ==
    CASE curr.kind = "Comment" ->
            IF forward THEN [forward |-> forward, out |-> Some(curr)]
            ELSE [forward |-> TRUE, out |-> None]
      [] curr.kind \in {"Instruction", "Directive"} ->
            IF next # None /\ next[1].kind = "Comment"
            THEN [forward |-> FALSE,
                  out |-> Some([curr EXCEPT !.comment = Some(next[1].body)])]
            ELSE [forward |-> forward, out |-> Some(curr)]
      [] curr.kind = "EOL" -> [forward |-> forward, out |-> Some(curr)]

\* hybrid_comment: the flag after the call and the Option it returns;
\* next is an Option (None past the last item).
hybrid_comment(forward, curr, next) ==
    CASE curr.kind = "Comment" ->
            IF forward THEN [forward |-> forward, out |-> Some(curr)]
            ELSE [forward |-> TRUE, out |-> None]
      [] curr.kind \in {"Instruction", "Directive"} ->
            IF /\ next # None
               /\ next[1].kind = "Comment"
               /\ at_the_same_line(next[1].lc, curr.lc)
            THEN [forward |-> FALSE,
                  out |-> Some([curr EXCEPT !.comment = Some(next[1].body)])]
            ELSE [forward |-> forward, out |-> Some(curr)]
      [] curr.kind = "EOL" -> [forward |-> forward, out |-> Some(curr)]

\* The windows the hybrid-comment loop runs over: processed_ast.rs pairs
\* every item with labelled_items.get(index + 1); fmt_ast.rs takes
\* tuple_windows(), one window per adjacent pair.
NumWindows(c, n) == IF c = "processed_ast" THEN n ELSE IF n = 0 THEN 0 ELSE n - 1

WindowNext(c, its, i) == IF i + 1 <= Len(its) THEN Some(its[i + 1]) ELSE None

\* No Formatter has been made yet.
FormatterIdle ==
    /\ style = DefaultStyle
    /\ buffer = <<>>
    /\ pass = 1
    /\ first = <<>>
    /\ program1 = <<>>

\* No Linter has been made yet.
LinterIdle ==
    /\ lint_style = [colon_after_label |-> TRUE, label_style |-> "LowerCamelCase",
                     instruction_style |-> "LowerCamelCase",
                     directive_style |-> "LowerCamelCase"]
    /\ errors = <<>>

\* No lookup has been made yet.
LookupIdle ==
    /\ lookup_span = [start |-> 0, end |-> 0]
    /\ line_column = <<>>

\* No binary runs.
CliIdle ==
    /\ tool = "fmt"
    /\ CHECK_MODE = FALSE
    /\ print_config = FALSE
    /\ files = <<>>
    /\ path_idx = 1
    /\ FORMATTED_COUNT = 0
    /\ FILE_DIFF_COUNT = 0
    /\ success = TRUE
    /\ exit_code = <<>>
    /\ output = <<>>
    /\ results = <<>>

\* No format call is under way.
PadIdle ==
    /\ fmt_lines = <<>>
    /\ newlines_after = <<>>

\* No branch is being decoded.
BrIdle ==
    /\ mnemonic = <<>>
    /\ br_tp = <<>>

ExtrasIdle == LookupIdle /\ CliIdle /\ PadIdle /\ BrIdle

-----------------------------------------------------------------------------
(* The transform, one step of its loops at a time *)

TransformTokens == {Token(v) : v \in {"La", "Lb", "RET", "END", "Cmt"}}

Init ==
    /\ copy \in {"processed_ast", "fmt_ast"}
    /\ hybrid_inline_comment \in BOOLEAN
    /\ \E l \in Layouts(TransformTokens, MaxItems) :
          /\ file_content = SourceText(l)
          /\ program = RawProgram(l)
    /\ label_buffer = <<>>
    /\ forward_next_comment = TRUE
    /\ labelled_items = <<>>
    /\ res = <<>>
    /\ idx = 1
    /\ items = <<>>
    /\ pc = "hybrid_label"
    /\ FormatterIdle
    /\ LinterIdle
    /\ ExtrasIdle

\* transform, lines 54-58: one call of hybrid_label by the map.
HybridLabel ==
    /\ pc = "hybrid_label"
    /\ idx <= Len(program)
    /\ LET r == hybrid_label(label_buffer, program[idx])
       IN  /\ label_buffer' = r.buffer
           /\ labelled_items' = Append(labelled_items, r.out)
    /\ idx' = idx + 1
    /\ UNCHANGED <<xvars, copy, hybrid_inline_comment, file_content, program,
                   forward_next_comment, res, items, pc, fvars, lvars>>

\* transform, lines 59-70: the trailing labels are popped into an EOL item,
\* the Nones are filtered out and every item gets its line and column.
EolAndLineInfo ==
    /\ pc = "hybrid_label"
    /\ idx > Len(program)
    /\ LET kept == Flatten(push_eol(labelled_items, label_buffer))
           table == LookTable(file_content)
       IN  IF \E i \in 1..Len(kept) : add_line_info(table, kept[i]) = {}
           THEN /\ pc' = "panic"
                /\ UNCHANGED labelled_items
           ELSE /\ labelled_items' \in
                      {s \in [1..Len(kept) -> UNION {add_line_info(table, kept[i]) :
                                                        i \in 1..Len(kept)}] :
                          \A i \in 1..Len(kept) : s[i] \in add_line_info(table, kept[i])}
                /\ pc' = IF hybrid_inline_comment THEN "hybrid_comment" ELSE "collect"
    /\ label_buffer' = <<>>
    /\ idx' = 1
    /\ UNCHANGED <<xvars, copy, hybrid_inline_comment, file_content, program,
                   forward_next_comment, res, items, fvars, lvars>>

\* transform, lines 74-77 (fmt_ast.rs 75-78): one call of hybrid_comment.
HybridComment ==
    /\ pc = "hybrid_comment"
    /\ idx <= NumWindows(copy, Len(labelled_items))
    /\ LET r == hybrid_comment(forward_next_comment, labelled_items[idx],
                               WindowNext(copy, labelled_items, idx))
       IN  /\ forward_next_comment' = r.forward
           /\ res' = Append(res, r.out)
    /\ idx' = idx + 1
    /\ UNCHANGED <<xvars, copy, hybrid_inline_comment, file_content, program,
                   label_buffer, labelled_items, items, pc, fvars, lvars>>

HybridCommentEnd ==
    /\ pc = "hybrid_comment"
    /\ idx > NumWindows(copy, Len(labelled_items))
    /\ pc' = "collect"
    /\ UNCHANGED <<xvars, tvars, fvars, lvars>>

\* A transform that builds the Program from res whatever the mode is.
CollectFromRes ==
    /\ pc = "collect"
    /\ items' = Flatten(res)
    /\ pc' = "done"
    /\ UNCHANGED <<xvars, copy, hybrid_inline_comment, file_content, program, label_buffer,
                   forward_next_comment, labelled_items, res, idx, fvars, lvars>>

\* transform, lines 71-82: the Program is built from res or labelled_items.
Collect ==
    /\ pc = "collect"
    /\ items' = IF hybrid_inline_comment THEN Flatten(res) ELSE labelled_items
    /\ pc' = "done"
    /\ UNCHANGED <<xvars, copy, hybrid_inline_comment, file_content, program, label_buffer,
                   forward_next_comment, labelled_items, res, idx, fvars, lvars>>

Next ==
    \/ HybridLabel
    \/ EolAndLineInfo
    \/ HybridComment
    \/ HybridCommentEnd
    \/ Collect

Spec == Init /\ [][Next]_vars

-----------------------------------------------------------------------------
(* Properties of the transform *)

IsStmt(x) == x.kind \in {"Instruction", "Directive"}

IsLabel(x) == x.kind = "Label"

\* The label-attached sequence, whatever step the transform is at.
Labelled == IF pc = "hybrid_label" THEN Flatten(labelled_items) ELSE labelled_items

\* Place of a statement or comment body in the input.
InputIndex(body) == CHOOSE p \in 1..Len(program) : program[p] = body

\* Index of the last statement before place p of the input, 0 if none.
PrevStmt(p) ==
    LET S == {j \in 1..(p - 1) : IsStmt(program[j])}
    IN  IF S = {} THEN 0 ELSE CHOOSE j \in S : \A k \in S : k <= j

\* The Label items of the input between places lo and hi, in input order.
LabelsBetween(lo, hi) ==
    LET raw == SelectSeq(SubSeq(program, lo, hi), IsLabel)
    IN  [j \in 1..Len(raw) |-> AsLabel(raw[j])]

Ascending(labels) ==
    \A i, j \in 1..Len(labels) : i < j => labels[i].span.start < labels[j].span.start

StmtBodies(its) ==
    LET st == SelectSeq(its, IsStmt) IN [i \in 1..Len(st) |-> st[i].body]

-----------------------------------------------------------------------------
(* C2 *)

\* C2: every labels list that a flush has produced (on an Instruction, a
\* Directive or the trailing-labels EOL item) holds its labels in the order
\* they were written in the source, first-seen label first.
C2_LabelsInSourceOrder ==
    /\ \A i \in 1..Len(Labelled) : Ascending(Labelled[i].labels)
    /\ \A i \in 1..Len(items) : Ascending(items[i].labels)

\* A run of two labels has been flushed onto a statement.
C2_Flushed ==
    \E i \in 1..Len(Labelled) : IsStmt(Labelled[i]) /\ Len(Labelled[i].labels) = 2

-----------------------------------------------------------------------------
(* C4 *)

\* The labels the accumulator must hold once the first n items are mapped.
PendingLabels(n) == LabelsBetween(PrevStmt(n + 1) + 1, n)

StmtCarriesItsLabels(it) ==
    LET p == InputIndex(it.body)
        want == LabelsBetween(PrevStmt(p) + 1, p - 1)
    IN  /\ Len(it.labels) = Len(want)
        /\ Range(it.labels) = Range(want)

NoSharedLabel(its) ==
    \A i, j \in 1..Len(its) :
        (i # j /\ IsStmt(its[i]) /\ IsStmt(its[j]))
            => Range(its[i].labels) \cap Range(its[j].labels) = {}

\* C4: every Instruction/Directive item carries exactly the labels written
\* since the statement before it (as many as there are Label items in that
\* stretch, and those), no label is attached to two statements, and after a
\* flush the accumulator is empty: it holds the labels written since the
\* last statement mapped, and nothing else.
C4_LabelFlush ==
    /\ \A i \in 1..Len(Labelled) : IsStmt(Labelled[i]) => StmtCarriesItsLabels(Labelled[i])
    /\ \A i \in 1..Len(items) : IsStmt(items[i]) => StmtCarriesItsLabels(items[i])
    /\ NoSharedLabel(Labelled)
    /\ NoSharedLabel(items)
    /\ pc = "hybrid_label" => label_buffer = PendingLabels(idx - 1)
    /\ pc # "hybrid_label" => label_buffer = <<>>

\* A labelled statement, then a statement without labels, have been
\* transformed: the flush of the first left nothing for the second.
C4_TwoStatements ==
    /\ pc = "done"
    /\ \E i, j \in 1..Len(items) :
          /\ i < j /\ IsStmt(items[i]) /\ IsStmt(items[j])
          /\ Len(items[i].labels) >= 1
          /\ items[j].labels = <<>>

-----------------------------------------------------------------------------
(* C5 *)

EolPlaces(its) == {i \in 1..Len(its) : its[i].kind = "EOL"}

\* The labels written after the last statement of the input.
TrailingLabels == PendingLabels(Len(program))

EolIsTheTrailingLabels(its) ==
    /\ EolPlaces(its) # {} <=> TrailingLabels # <<>>
    /\ \A i \in EolPlaces(its) :
          /\ i = Len(its)
          /\ Len(its[i].labels) = Len(TrailingLabels)
          /\ Range(its[i].labels) = Range(TrailingLabels)

\* C5: a trailing-labels (EOL) item appears at most once; the program that
\* processed_ast.rs returns holds one exactly when the input has a Label
\* after its last statement (or labels and no statement), it then carries
\* all of those labels, and there is none when the last label run is
\* followed by a statement.
C5_TrailingLabelsOnce ==
    /\ Cardinality(EolPlaces(Labelled)) <= 1
    /\ Cardinality(EolPlaces(items)) <= 1
    /\ pc \in {"hybrid_comment", "collect", "done"} => EolIsTheTrailingLabels(Labelled)
    /\ (pc = "done" /\ copy = "processed_ast") => EolIsTheTrailingLabels(items)

\* A file that ends with two labels after a statement has been transformed
\* by processed_ast.rs with hybrid comments on.
C5_TrailingRun ==
    /\ pc = "done"
    /\ copy = "processed_ast"
    /\ hybrid_inline_comment
    /\ Len(TrailingLabels) = 2
    /\ \E i \in 1..Len(items) : IsStmt(items[i])

-----------------------------------------------------------------------------
(* C3 *)

CommentPlaces(its) == {i \in 1..Len(its) : its[i].kind = "Comment"}

\* The comment at place i of the label-attached sequence follows a statement
\* whose resolved line is its own.
Adopted(i) ==
    /\ i > 1
    /\ IsStmt(Labelled[i - 1])
    /\ Labelled[i].lc.line = Labelled[i - 1].lc.line

Standalone(c) == \E k \in 1..Len(items) : items[k] = c

InSlotOf(c, s) ==
    \E k \in 1..Len(items) :
        /\ IsStmt(items[k])
        /\ items[k].body = s.body
        /\ items[k].comment = Some(c.body)

InSomeSlot(c) ==
    \E k \in 1..Len(items) : IsStmt(items[k]) /\ items[k].comment = Some(c.body)

\* C3: with hybrid inline comments on, in the program processed_ast.rs
\* returns, a comment is in the trailing-comment slot of a statement S if and
\* only if S is the item right before it in the label-attached sequence and
\* its resolved line is the line of S, and then no standalone Comment item
\* is emitted for it; every other comment is emitted standalone, unchanged,
\* and is in no statement's slot.
C3_CommentAttachment ==
    (pc = "done" /\ copy = "processed_ast" /\ hybrid_inline_comment) =>
        \A i \in CommentPlaces(Labelled) :
            IF Adopted(i)
            THEN /\ InSlotOf(Labelled[i], Labelled[i - 1])
                 /\ ~Standalone(Labelled[i])
                 /\ \A j \in 1..Len(Labelled) :
                       (j # i - 1 /\ IsStmt(Labelled[j])) => ~InSlotOf(Labelled[i], Labelled[j])
            ELSE /\ Standalone(Labelled[i])
                 /\ ~InSomeSlot(Labelled[i])

\* A statement with a comment on its line and a comment on a line of its
\* own have been transformed.
C3_BothKinds ==
    /\ pc = "done" /\ copy = "processed_ast" /\ hybrid_inline_comment
    /\ \E i, j \in CommentPlaces(Labelled) : Adopted(i) /\ ~Adopted(j) /\ j > 1

-----------------------------------------------------------------------------
(* C6 *)

\* C6: the Instruction and Directive items of the Processed Program are
\* those of the input, each once and in the input's order, with either copy
\* of the transform and with hybrid inline comments on or off.
C6_StatementsKept ==
    pc = "done" => StmtBodies(items) = SelectSeq(program, IsStmt)

-----------------------------------------------------------------------------
(* Formatter *)

WhiteSpace == {" ", "\t", "\n", "\r"}

RECURSIVE TrimStart(_)
TrimStart(s) ==
    IF s # <<>> /\ Head(s) \in WhiteSpace THEN TrimStart(Tail(s)) ELSE s

RECURSIVE TrimEnd(_)
TrimEnd(s) ==
    IF s # <<>> /\ s[Len(s)] \in WhiteSpace THEN TrimEnd(SubSeq(s, 1, Len(s) - 1)) ELSE s

Trim(s) == TrimEnd(TrimStart(s))

SeqMax(ns) ==
    IF ns = <<>> THEN 0 ELSE CHOOSE m \in Range(ns) : \A n \in Range(ns) : n <= m

\* print_comment: the text after ";" trimmed, behind a ";" (a comment that
\* does not start with ";" hits unreachable!(): no arm).
print_comment(comment) ==
    CASE comment.content # <<>> /\ Head(comment.content) = ";" ->
            <<";">> \o Trim(Tail(comment.content))

ends_with_colon(text) == text # <<>> /\ text[Len(text)] = ":"

\* A print_label that writes the label as it stands in the file.
print_label_verbatim(st, label) == label.content

print_label(st, label) ==
    IF st.colon_after_label
    THEN IF ends_with_colon(label.content) THEN label.content
         ELSE Append(label.content, ":")
    ELSE IF ends_with_colon(label.content)
         THEN SubSeq(label.content, 1, Len(label.content) - 1)
         ELSE label.content

print_instruction(instruction) ==
    LET op == instruction.operands
        operands ==
            CASE instruction.type \in {"Add", "And", "Ldr", "Str"} ->
                    op[1].content \o <<",", " ">> \o op[2].content
                        \o <<",", " ">> \o op[3].content
              [] instruction.type \in {"Not", "Ld", "Ldi", "Lea", "St", "Sti"} ->
                    op[1].content \o <<",", " ">> \o op[2].content
              [] instruction.type \in {"Br", "Jmp", "Jsrr", "Jsr", "Trap"} -> op[1].content
              [] instruction.type \in {"Nop", "Ret", "Halt", "Puts", "Getc", "Out", "In"} ->
                    <<>>
    IN  IF operands = <<>> THEN instruction.content
        ELSE instruction.content \o <<" ">> \o operands

print_directive(directive) ==
    LET operands ==
            CASE directive.type \in {"ORIG", "BLKW", "FILL", "STRINGZ"} ->
                    directive.operands[1].content
              [] directive.type = "END" -> <<>>
    IN  IF operands = <<>> THEN directive.content
        ELSE directive.content \o <<" ">> \o operands

\* A formatted_display that indents ORIG and END as any other directive.
formatted_display_indent_all(item, st) ==
    LET label_indent == Spaces(IF item.labels = <<>> THEN 0 ELSE st.indent_label)
        labels == [i \in 1..Len(item.labels) |->
                      label_indent \o print_label(st, item.labels[i])]
        comment == IF item.comment = None THEN None
                   ELSE Some(print_comment(item.comment[1]))
    IN  CASE item.kind = "Comment" ->
                [labels |-> <<>>, body |-> print_comment(item.body), comment |-> None]
          [] item.kind = "Instruction" ->
                [labels |-> labels,
                 body |-> Spaces(st.indent_instruction) \o print_instruction(item.body),
                 comment |-> comment]
          [] item.kind = "Directive" ->
                [labels |-> labels,
                 body |-> Spaces(st.indent_directive)
                          \o print_directive(item.body),
                 comment |-> comment]
          [] item.kind = "EOL" ->
                [labels |-> labels, body |-> <<>>, comment |-> None]

\* formatted_display: (labels, body, comment).
formatted_display(item, st) ==
    LET label_indent == Spaces(IF item.labels = <<>> THEN 0 ELSE st.indent_label)
        labels == [i \in 1..Len(item.labels) |->
                      label_indent \o print_label(st, item.labels[i])]
        comment == IF item.comment = None THEN None
                   ELSE Some(print_comment(item.comment[1]))
    IN  CASE item.kind = "Comment" ->
                [labels |-> <<>>, body |-> print_comment(item.body), comment |-> None]
          [] item.kind = "Instruction" ->
                [labels |-> labels,
                 body |-> Spaces(st.indent_instruction) \o print_instruction(item.body),
                 comment |-> comment]
          [] item.kind = "Directive" ->
                [labels |-> labels,
                 body |-> Spaces(IF item.body.type \in {"END", "ORIG"} THEN 0
                                 ELSE st.indent_directive)
                          \o print_directive(item.body),
                 comment |-> comment]
          [] item.kind = "EOL" ->
                [labels |-> labels, body |-> <<>>, comment |-> None]

is_comment(item) == item.kind = "Comment"
is_instruction(item) == item.kind = "Instruction"
is_directive(item) == item.kind = "Directive"
is_orig(item) == item.kind = "Directive" /\ item.body.type = "ORIG"
is_end(item) == item.kind = "Directive" /\ item.body.type = "END"

\* A control_padding whose label rule also fires from a labelled statement
\* to an unlabelled one.
control_padding_label_both_ways(st, current, next) ==
    LET stick ==
            IF /\ st.space_comment_stick_to_body # 0
               /\ is_comment(current)
               /\ next # None
               /\ (is_directive(next[1]) \/ is_instruction(next[1]))
            THEN st.space_comment_stick_to_body ELSE 0
        block ==
            IF /\ st.space_block_to_comment # 0
               /\ ~is_orig(current)
               /\ (is_directive(current) \/ is_instruction(current))
               /\ next # None
               /\ is_comment(next[1])
            THEN st.space_block_to_comment ELSE 0
        label ==
            IF /\ st.space_from_label_block # 0
               /\ (is_instruction(current) \/ is_directive(current))
               /\ next # None
               /\ (is_instruction(next[1]) \/ is_directive(next[1]))
               /\ (current.labels = <<>>) # (next[1].labels = <<>>)
            THEN st.space_from_label_block ELSE 0
        startend ==
            IF st.space_from_start_end_block # 0 /\ is_directive(current)
            THEN IF is_orig(current) THEN st.space_from_start_end_block
                 ELSE IF next # None /\ is_end(next[1])
                      THEN st.space_from_start_end_block ELSE 0
            ELSE 0
    IN  stick + block + label + startend

\* control_padding: the blank lines after current; next is an Option.
control_padding(st, current, next) ==
    LET stick ==
            IF /\ st.space_comment_stick_to_body # 0
               /\ is_comment(current)
               /\ next # None
               /\ (is_directive(next[1]) \/ is_instruction(next[1]))
            THEN st.space_comment_stick_to_body ELSE 0
        block ==
            IF /\ st.space_block_to_comment # 0
               /\ ~is_orig(current)
               /\ (is_directive(current) \/ is_instruction(current))
               /\ next # None
               /\ is_comment(next[1])
            THEN st.space_block_to_comment ELSE 0
        label ==
            IF /\ st.space_from_label_block # 0
               /\ (is_instruction(current) \/ is_directive(current))
               /\ next # None
               /\ (is_instruction(next[1]) \/ is_directive(next[1]))
               /\ current.labels = <<>>
               /\ next[1].labels # <<>>
            THEN st.space_from_label_block ELSE 0
        startend ==
            IF st.space_from_start_end_block # 0 /\ is_directive(current)
            THEN IF is_orig(current) THEN st.space_from_start_end_block
                 ELSE IF next # None /\ is_end(next[1])
                      THEN st.space_from_start_end_block ELSE 0
            ELSE 0
    IN  stick + block + label + startend

\* format, lines 44-50: what the first loop pushes for the item at index i.
format_line(st, its, i) ==
    LET d == formatted_display(its[i], st)
    IN  [labels |-> d.labels, body |-> d.body, comment |-> d.comment,
         space |-> control_padding(st, its[i],
                                   IF i + 1 <= Len(its) THEN Some(its[i + 1]) ELSE None)
                   + 1]

\* format, lines 43-51: (labels, body, comments, newlines) of every item.
format_lines(st, its) == [i \in 1..Len(its) |-> format_line(st, its, i)]

\* A column taken from the first line only, and not from the widest body.
comment_start_column_of_first_body(st, lines) ==
    (IF lines = <<>> THEN 0 ELSE Len(lines[1].body)) + st.indent_min_comment_from_block

\* format, lines 53-54.
comment_start_column(st, lines) ==
    SeqMax([i \in 1..Len(lines) |-> Len(lines[i].body)]) + st.indent_min_comment_from_block

\* format, lines 56-76: what one line appends to the buffer.
emit_line(column, line) ==
    Flatten([i \in 1..Len(line.labels) |-> Append(line.labels[i], "\n")])
    \o line.body
    \o Spaces(column - Len(line.body))
    \o (IF line.comment = None THEN <<>> ELSE line.comment[1])
    \o [i \in 1..line.space |-> "\n"]

\* A format that ends its output with one more line feed.
format_with_final_line_feed(st, buf, its) ==
    LET lines == format_lines(st, its)
        column == comment_start_column(st, lines)
    IN  buf \o Flatten([i \in 1..Len(lines) |-> emit_line(column, lines[i])]) \o <<"\n">>

\* Formatter::format: the buffer after the call.
format(st, buf, its) ==
    LET lines == format_lines(st, its)
        column == comment_start_column(st, lines)
    IN  buf \o Flatten([i \in 1..Len(lines) |-> emit_line(column, lines[i])])

-----------------------------------------------------------------------------
(* StandardTransform::transform as one call *)

RECURSIVE map_hybrid_label(_, _)
\* transform, lines 54-58, on a new StandardTransform: (buffer, mapped).
map_hybrid_label(prog, n) ==
    IF n = 0 THEN [buffer |-> <<>>, mapped |-> <<>>]
    ELSE LET before == map_hybrid_label(prog, n - 1)
             r == hybrid_label(before.buffer, prog[n])
         IN  [buffer |-> r.buffer, mapped |-> Append(before.mapped, r.out)]

RECURSIVE map_hybrid_comment(_, _, _)
\* transform, lines 73-78: (forward, res) after the first n windows.
map_hybrid_comment(c, its, n) ==
    IF n = 0 THEN [forward |-> TRUE, res |-> <<>>]
    ELSE LET before == map_hybrid_comment(c, its, n - 1)
             r == hybrid_comment(before.forward, its[n], WindowNext(c, its, n))
         IN  [forward |-> r.forward, res |-> Append(before.res, r.out)]

\* The Program a new StandardTransform::new(hybrid, text) returns for prog.
\* The ranges of the look table are disjoint, so each lookup has one result;
\* panic: a lookup hit unreachable!().
transform(c, hybrid, text, prog) ==
    LET m == map_hybrid_label(prog, Len(prog))
        kept == Flatten(push_eol(m.mapped, m.buffer))
        table == LookTable(text)
    IN  IF \E i \in 1..Len(kept) : add_line_info(table, kept[i]) = {}
        THEN [panic |-> TRUE, items |-> <<>>]
        ELSE LET located == [i \in 1..Len(kept) |->
                                CHOOSE x \in add_line_info(table, kept[i]) : TRUE]
             IN  [panic |-> FALSE,
                  items |-> IF hybrid
                            THEN Flatten(map_hybrid_comment(
                                     c, located, NumWindows(c, Len(located))).res)
                            ELSE located]

-----------------------------------------------------------------------------
(* Characters *)

LowerSeq == <<"a", "b", "c", "d", "e", "f", "g", "h", "i", "j", "k", "l", "m",
              "n", "o", "p", "q", "r", "s", "t", "u", "v", "w", "x", "y", "z">>

UpperSeq == <<"A", "B", "C", "D", "E", "F", "G", "H", "I", "J", "K", "L", "M",
              "N", "O", "P", "Q", "R", "S", "T", "U", "V", "W", "X", "Y", "Z">>

LowerChars == Range(LowerSeq)
UpperChars == Range(UpperSeq)
DigitChars == {"0", "1", "2", "3", "4", "5", "6", "7", "8", "9"}

to_uppercase(text) ==
    [i \in 1..Len(text) |->
        IF text[i] \in LowerChars
        THEN UpperSeq[CHOOSE k \in 1..Len(LowerSeq) : LowerSeq[k] = text[i]]
        ELSE text[i]]

-----------------------------------------------------------------------------
(* The grammar (lc3.pest) and parse_ast, for the texts the formatter writes *)

Separators == WhiteSpace \cup {","}

\* First place at or after i where text holds a character of stop, or
\* Len(text) + 1.
RECURSIVE ScanTo(_, _, _)
ScanTo(text, i, stop) ==
    IF i > Len(text) \/ text[i] \in stop THEN i ELSE ScanTo(text, i + 1, stop)

\* The tokens of text from place i on: a comment runs from ";" to the end of
\* its line, any other token to the next separator or ";".
RECURSIVE Lex(_, _)
Lex(text, i) ==
    IF i > Len(text) THEN <<>>
    ELSE IF text[i] \in Separators THEN Lex(text, i + 1)
    ELSE LET e == IF text[i] = ";" THEN ScanTo(text, i, {"\n"})
                  ELSE ScanTo(text, i, Separators \cup {";"})
         IN  <<[content |-> SubSeq(text, i, e - 1), span |-> Span(i - 1, e - 1)]>>
             \o Lex(text, e)

Mnemonic(name) ==
    CASE name = <<"A", "D", "D">> -> [type |-> "Add", arity |-> 3]
      [] name = <<"A", "N", "D">> -> [type |-> "And", arity |-> 3]
      [] name = <<"N", "O", "T">> -> [type |-> "Not", arity |-> 2]
      [] name = <<"J", "M", "P">> -> [type |-> "Jmp", arity |-> 1]
      [] name = <<"R", "E", "T">> -> [type |-> "Ret", arity |-> 0]
      [] name = <<"H", "A", "L", "T">> -> [type |-> "Halt", arity |-> 0]
      [] name = <<".", "O", "R", "I", "G">> -> [type |-> "ORIG", arity |-> 1]
      [] name = <<".", "E", "N", "D">> -> [type |-> "END", arity |-> 0]
      [] name = <<".", "F", "I", "L", "L">> -> [type |-> "FILL", arity |-> 1]
      [] name = <<".", "B", "L", "K", "W">> -> [type |-> "BLKW", arity |-> 1]
      [] OTHER -> [type |-> "", arity |-> 0]

\* The raw items of a token sequence: a comment, a directive or an
\* instruction with the operands of its shape, or else a label. A statement
\* short of operands is a syntax error: ok is FALSE.
RECURSIVE Group(_)
Group(toks) ==
    IF toks = <<>> THEN [ok |-> TRUE, items |-> <<>>]
    ELSE LET t == Head(toks)
             m == Mnemonic(to_uppercase(t.content))
             kind == IF Head(t.content) = ";" THEN "Comment"
                     ELSE IF m.type = "" THEN "Label"
                     ELSE IF Head(t.content) = "." THEN "Directive"
                     ELSE "Instruction"
         IN  IF Len(toks) < 1 + m.arity
                \/ \E j \in 2..(1 + m.arity) : Head(toks[j].content) \in {";", "."}
             THEN [ok |-> FALSE, items |-> <<>>]
             ELSE LET rest == Group(SubSeq(toks, 2 + m.arity, Len(toks)))
                  IN  [ok |-> rest.ok,
                       items |-> <<[kind |-> kind, type |-> m.type,
                                    content |-> t.content, span |-> t.span,
                                    operands |-> SubSeq(toks, 2, 1 + m.arity)]>>
                                 \o rest.items]

\* LC3Parser::parse(Rule::Program, text) followed by parse_ast.
Parse(text) == Group(Lex(text, 1))

-----------------------------------------------------------------------------
(* Formatting a file, and formatting the formatted text again *)

FormatTokens == {Token(v) : v \in {"La", "Lb", "RET", "NOT", "END", "Cmt2"}}

\* The layouts in which only a comment may stand on the line of the item
\* before it.
CommentLayouts(V, n) ==
    {l \in Layouts(V, n) :
        \A i \in 1..Len(l) : l[i].same => l[i].v.kind = "Comment"}

InitFmt ==
    /\ copy \in {"processed_ast", "fmt_ast"}
    /\ hybrid_inline_comment = TRUE
    /\ \E l \in CommentLayouts(FormatTokens, MaxFmtItems) :
          /\ file_content = SourceText(l)
          /\ program1 = RawProgram(l)
    /\ program = <<>>
    /\ label_buffer = <<>>
    /\ forward_next_comment = TRUE
    /\ labelled_items = <<>>
    /\ res = <<>>
    /\ idx = 1
    /\ items = <<>>
    /\ pc = "read"
    /\ style \in Styles
    /\ buffer = <<>>
    /\ pass = 1
    /\ first = <<>>
    /\ LinterIdle
    /\ ExtrasIdle

\* format_file (fmt.rs, with fmt_ast.rs), or get_ast (ast/parse.rs, with
\* ast/processed_ast.rs) and the caller's Formatter: the text is parsed,
\* StandardTransform::new(true, content).transform(program) is run and a new
\* Formatter formats the result.
FormatFile ==
    /\ pc = "read"
    /\ \E p \in {Parse(file_content)} :
       \E t \in {transform(copy, hybrid_inline_comment, file_content, p.items)} :
          /\ program' = p.items
          /\ items' = IF p.ok /\ ~t.panic THEN t.items ELSE <<>>
          /\ buffer' = IF p.ok /\ ~t.panic THEN format(style, <<>>, items') ELSE <<>>
          /\ pc' = IF ~p.ok THEN "syntax_error"
                   ELSE IF t.panic THEN "panic" ELSE "formatted"
    /\ UNCHANGED <<xvars, copy, hybrid_inline_comment, file_content, label_buffer,
                   forward_next_comment, labelled_items, res, idx,
                   style, pass, first, program1, lvars>>

\* write_file: the file now holds the formatted bytes, and is read again.
WriteFile ==
    /\ pc = "formatted"
    /\ pass = 1
    /\ file_content' = buffer
    /\ first' = buffer
    /\ pass' = 2
    /\ pc' = "read"
    /\ UNCHANGED <<xvars, copy, hybrid_inline_comment, program, label_buffer,
                   forward_next_comment, labelled_items, res, idx, items,
                   style, buffer, program1, lvars>>

NextFmt ==
    \/ FormatFile
    \/ WriteFile

SpecFmt == InitFmt /\ [][NextFmt]_vars

\* The grammar model reads every input file as the items it was written from.
ParseReadsTheInput ==
    (pass = 1 /\ pc = "read") => Parse(file_content) = [ok |-> TRUE, items |-> program1]

-----------------------------------------------------------------------------
(* C1 *)

\* C1: formatting the re-parsed, re-transformed output of a formatting run
\* with the same style gives the bytes of the first run.
C1_Idempotent ==
    (pass = 2 /\ pc = "formatted") => buffer = first

-----------------------------------------------------------------------------
(* C7 *)

\* Mnemonic text and operand texts of the statements of a raw program.
StatementTexts(prog) ==
    LET st == SelectSeq(prog, IsStmt)
    IN  [i \in 1..Len(st) |->
            [content |-> st[i].content,
             operands |-> [j \in 1..Len(st[i].operands) |-> st[i].operands[j].content]]]

\* C7: the formatted text parses, and its instructions and directives are
\* those of the file, in order, with the same mnemonic and operand texts.
C7_RoundTrip ==
    (pass = 2 /\ pc # "read") =>
        /\ pc # "syntax_error"
        /\ StatementTexts(program) = StatementTexts(program1)

-----------------------------------------------------------------------------
(* C8 *)

\* Offset in its line of the first ";" of the line, Len(line) if none.
CommentOffset(line) == ScanTo(line, 1, {";"}) - 1

\* The lines of the output that hold a body and, behind it, a comment.
TrailingCommentLines(text) ==
    LET lines == Lines(text)
    IN  {n \in 1..Len(lines) :
            CommentOffset(lines[n]) > 0 /\ CommentOffset(lines[n]) < Len(lines[n])}

MaxBodyWidth ==
    SeqMax([i \in 1..Len(items) |-> Len(formatted_display(items[i], style).body)])

\* C8: every output line that carries a trailing comment starts it at the
\* same column, (the widest body of all the items) +
\* indent_min_comment_from_block; there is one such line for every item
\* with a trailing comment.
C8_GlobalAlignment ==
    pc = "formatted" =>
        /\ \A n \in TrailingCommentLines(buffer) :
              CommentOffset(Lines(buffer)[n])
                  = MaxBodyWidth + style.indent_min_comment_from_block
        /\ Cardinality(TrailingCommentLines(buffer))
              = Cardinality({i \in 1..Len(items) : items[i].comment # None})

\* Two statements of different widths, each with a trailing comment, have
\* been formatted.
C8_TwoWidths ==
    /\ pc = "formatted"
    /\ \E i, j \in 1..Len(items) :
          /\ items[i].comment # None
          /\ items[j].comment # None
          /\ Len(formatted_display(items[i], style).body)
                 < Len(formatted_display(items[j], style).body)

-----------------------------------------------------------------------------
(* lint/lint.rs: the style checker *)

CaseStyles == {"LowerCamelCase", "UpperCamelCase", "SnakeCase", "ScreamingSnakeCase"}

\* Result<(), E>: Ok(()) and Err(e).
Ok == [ok |-> TRUE, err |-> <<>>]
Err(e) == [ok |-> FALSE, err |-> <<e>>]

\* First place at or after i where s holds a character outside class, or
\* Len(s) + 1: the end of a greedy run of class*.
RECURSIVE RunEnd(_, _, _)
RunEnd(s, i, class) ==
    IF i > Len(s) \/ s[i] \notin class THEN i ELSE RunEnd(s, i + 1, class)

\* (?:[A-Z][a-z0-9]*)*$ from place i on.
RECURSIVE CamelGroups(_, _)
CamelGroups(s, i) ==
    IF i > Len(s) THEN TRUE
    ELSE /\ s[i] \in UpperChars
         /\ CamelGroups(s, RunEnd(s, i + 1, LowerChars \cup DigitChars))

\* (?:_class+)*$ from place i on.
RECURSIVE SnakeGroups(_, _, _)
SnakeGroups(s, i, class) ==
    IF i > Len(s) THEN TRUE
    ELSE /\ s[i] = "_"
         /\ RunEnd(s, i + 1, class) > i + 1
         /\ SnakeGroups(s, RunEnd(s, i + 1, class), class)

\* ^[a-z]+(?:[A-Z][a-z0-9]*)*$
LOWER_CAMEL(s) ==
    /\ RunEnd(s, 1, LowerChars) > 1
    /\ CamelGroups(s, RunEnd(s, 1, LowerChars))

\* ^[A-Z][a-z0-9]*(?:[A-Z][a-z0-9]*)*$
UPPER_CAMEL(s) ==
    /\ s # <<>>
    /\ CamelGroups(s, 1)

\* ^[a-z]+(?:_[a-z0-9]+)*$
SNAKE_CASE(s) ==
    /\ RunEnd(s, 1, LowerChars) > 1
    /\ SnakeGroups(s, RunEnd(s, 1, LowerChars), LowerChars \cup DigitChars)

\* ^[A-Z0-9]+(?:_[A-Z0-9]+)*$
SCREAMING_SNAKE(s) ==
    /\ RunEnd(s, 1, UpperChars \cup DigitChars) > 1
    /\ SnakeGroups(s, RunEnd(s, 1, UpperChars \cup DigitChars), UpperChars \cup DigitChars)

get_identifier_style(identifier) ==
    IF SNAKE_CASE(identifier) THEN Some("SnakeCase")
    ELSE IF SCREAMING_SNAKE(identifier) THEN Some("ScreamingSnakeCase")
    ELSE IF LOWER_CAMEL(identifier) THEN Some("LowerCamelCase")
    ELSE IF UPPER_CAMEL(identifier) THEN Some("UpperCamelCase")
    ELSE None

\* A check that takes the found style alone: a snake_case word without
\* underscore is refused where lowerCamelCase is required.
check_keyword_style_exact(keyword, case_style) ==
    LET found == get_identifier_style(keyword)
    IN  IF found = None THEN Err(None)
        ELSE IF found[1] = case_style THEN Ok
        ELSE Err(Some(found[1]))

\* Result<(), Option<CaseStyle>>.
check_keyword_style(keyword, case_style) ==
    LET found == get_identifier_style(keyword)
    IN  IF found = None THEN Err(None)
        ELSE IF found[1] = case_style THEN Ok
        ELSE IF /\ found[1] = "SnakeCase"
                /\ "_" \notin Range(keyword)
                /\ case_style = "LowerCamelCase"
             THEN Ok
        ELSE Err(Some(found[1]))

ends_with(s, c) == s # <<>> /\ s[Len(s)] = c

strip_suffix_colon(label) ==
    IF ends_with(label, ":") THEN SubSeq(label, 1, Len(label) - 1) ELSE label

check_label(st, label) ==
    [case_error |-> check_keyword_style(strip_suffix_colon(label), st.label_style),
     colon_error |-> IF ends_with(label, ":") = st.colon_after_label THEN Ok ELSE Err(<<>>)]

check_instruction(st, instruction) ==
    check_keyword_style(instruction, st.instruction_style)

check_directive_style(st, directive) ==
    check_keyword_style(directive, st.directive_style)

\* Result::map_err(|e| (expected_case, e)).
label_error_to_error(label, expected_case, case_error, colon_error) ==
    [case_style_error |-> IF case_error.ok THEN Ok
                          ELSE Err(<<expected_case, case_error.err[1]>>),
     colon_style_error |-> colon_error,
     span |-> label.span]

\* A checker that reports a label for its case alone.
RECURSIVE check_label_style_case_only(_, _)
check_label_style_case_only(st, labels) ==
    IF labels = <<>> THEN <<>>
    ELSE LET label == Head(labels)
             r == check_label(st, label.content)
         IN  (IF ~r.case_error.ok
              THEN <<label_error_to_error(label, st.label_style,
                                          r.case_error, r.colon_error)>>
              ELSE <<>>)
             \o check_label_style_case_only(st, Tail(labels))

RECURSIVE check_label_style(_, _)
check_label_style(st, labels) ==
    IF labels = <<>> THEN <<>>
    ELSE LET label == Head(labels)
             r == check_label(st, label.content)
         IN  (IF ~r.case_error.ok \/ ~r.colon_error.ok
              THEN <<label_error_to_error(label, st.label_style,
                                          r.case_error, r.colon_error)>>
              ELSE <<>>)
             \o check_label_style(st, Tail(labels))

visit_comment == <<>>

visit_instruction(st, item) ==
    LET r == check_instruction(st, item.body.content)
    IN  check_label_style(st, item.labels)
        \o (IF r.ok THEN <<>>
            ELSE <<[case_style_error |-> Err(<<st.instruction_style, r.err[1]>>),
                    colon_style_error |-> Ok,
                    span |-> item.body.span]>>)
        \o (IF item.comment = None THEN <<>> ELSE visit_comment)

\* The assert! of line 242 holds for every directive of the grammar.
visit_directive(st, item) ==
    LET r == check_directive_style(st, Tail(item.body.content))
    IN  check_label_style(st, item.labels)
        \o (IF r.ok THEN <<>>
            ELSE <<[case_style_error |-> Err(<<st.directive_style, r.err[1]>>),
                    colon_style_error |-> Ok,
                    span |-> item.body.span]>>)
        \o (IF item.comment = None THEN <<>> ELSE visit_comment)

visit_eol(st, item) == check_label_style(st, item.labels)

\* Linter::accept: the errors of all the items, in the order of the items.
RECURSIVE accept(_, _)
accept(st, its) ==
    IF its = <<>> THEN <<>>
    ELSE LET line == Head(its)
         IN  (CASE line.kind = "Comment" -> visit_comment
                [] line.kind = "Instruction" -> visit_instruction(st, line)
                [] line.kind = "Directive" -> visit_directive(st, line)
                [] line.kind = "EOL" -> visit_eol(st, line))
             \o accept(st, Tail(its))

-----------------------------------------------------------------------------
(* The linter on a file: get_ast, then Linter::new(style, program).check() *)

\* The characters label names are written with, and the names of up to n
\* characters that start with a letter.
NameChars == {"a", "A", "1", "_"}

LabelNames(n) ==
    {s \in UNION {[1..k -> NameChars] : k \in 1..n} : s[1] \in {"a", "A"}}

LabelToken(name, colon) ==
    [kind |-> "Label", type |-> "",
     content |-> IF colon THEN Append(name, ":") ELSE name, operands |-> <<>>]

LabelTokens == {LabelToken(s, c) : s \in LabelNames(MaxIdLen), c \in BOOLEAN}

OtherLabels == {LabelToken(<<"b">>, TRUE), LabelToken(<<"B">>, FALSE)}

\* The grammar reads mnemonics and directive names in any case.
LintStatements ==
    {[Token("NOT") EXCEPT !.content = m] :
        m \in {<<"n", "o", "t">>, <<"n", "O", "t">>, <<"N", "o", "t">>, <<"N", "O", "T">>}}
    \cup {[Token("END") EXCEPT !.content = d] :
        d \in {<<".", "e", "n", "d">>, <<".", "e", "N", "D">>,
               <<".", "E", "n", "d">>, <<".", "E", "N", "D">>}}
    \cup {Token("Cmt")}

\* None or one token of T, as a piece of a layout.
Optional(T, same) == {<<>>} \cup {<<[v |-> t, same |-> same]>> : t \in T}

\* A file of the linter: a label or none, one more label or none, and a
\* statement, a comment or nothing, each on a line of its own.
LintLayouts ==
    {a \o b \o c : a \in Optional(LabelTokens, FALSE),
                   b \in Optional(OtherLabels, FALSE),
                   c \in Optional(LintStatements, FALSE)}

StyleSeq == <<"LowerCamelCase", "UpperCamelCase", "SnakeCase", "ScreamingSnakeCase">>

\* LintStyle: the three case styles differ from each other.
LintStyles ==
    {[colon_after_label |-> c,
      label_style |-> StyleSeq[k],
      instruction_style |-> StyleSeq[(k % 4) + 1],
      directive_style |-> StyleSeq[((k + 1) % 4) + 1]] : k \in 1..4, c \in BOOLEAN}

InitLint ==
    /\ copy = "processed_ast"
    /\ hybrid_inline_comment = TRUE
    /\ \E l \in LintLayouts :
          /\ file_content = SourceText(l)
          /\ program = RawProgram(l)
    /\ label_buffer = <<>>
    /\ forward_next_comment = TRUE
    /\ labelled_items = <<>>
    /\ res = <<>>
    /\ idx = 1
    /\ items = <<>>
    /\ pc = "source"
    /\ FormatterIdle
    /\ lint_style \in LintStyles
    /\ errors = <<>>
    /\ ExtrasIdle

\* get_ast (ast/parse.rs): the parsed file goes through
\* StandardTransform::new(true, content).
GetAst ==
    /\ pc = "source"
    /\ \E t \in {transform(copy, hybrid_inline_comment, file_content, program)} :
          /\ items' = t.items
          /\ pc' = IF t.panic THEN "panic" ELSE "ast"
    /\ UNCHANGED <<xvars, copy, hybrid_inline_comment, file_content, program, label_buffer,
                   forward_next_comment, labelled_items, res, idx, fvars, lvars>>

\* Linter::new(style, program).check(): Ok(()) or Err(errors).
Check ==
    /\ pc = "ast"
    /\ errors' = accept(lint_style, items)
    /\ pc' = IF errors' = <<>> THEN "ok" ELSE "err"
    /\ UNCHANGED <<xvars, tvars, fvars, lint_style>>

NextLint ==
    \/ GetAst
    \/ Check

SpecLint == InitLint /\ [][NextLint]_vars

-----------------------------------------------------------------------------
(* C9, C10 *)

\* The labels, mnemonics and directive names of the file.
LintTokens == {program[i] : i \in {j \in 1..Len(program) : program[j].kind # "Comment"}}

\* The text whose case is ruled, and the style that rules it.
NameOf(t) ==
    CASE t.kind = "Label" -> strip_suffix_colon(t.content)
      [] t.kind = "Instruction" -> t.content
      [] t.kind = "Directive" -> Tail(t.content)

RequiredStyle(t) ==
    CASE t.kind = "Label" -> lint_style.label_style
      [] t.kind = "Instruction" -> lint_style.instruction_style
      [] t.kind = "Directive" -> lint_style.directive_style

Matches(cs, s) ==
    CASE cs = "LowerCamelCase" -> LOWER_CAMEL(s)
      [] cs = "UpperCamelCase" -> UPPER_CAMEL(s)
      [] cs = "SnakeCase" -> SNAKE_CASE(s)
      [] cs = "ScreamingSnakeCase" -> SCREAMING_SNAKE(s)

MatchedStyles(s) == {cs \in CaseStyles : Matches(cs, s)}

CaseConforms(t) == Matches(RequiredStyle(t), NameOf(t))

ColonConforms(t) ==
    t.kind = "Label" => (ends_with(t.content, ":") = lint_style.colon_after_label)

Conforms(t) == CaseConforms(t) /\ ColonConforms(t)

ErrorsAt(t) == {i \in 1..Len(errors) : errors[i].span = t.span}

Checked == pc \in {"ok", "err"}

\* C9: once check has returned, no error bears the span of a token whose
\* text matches the pattern of the style required of it and, for a label,
\* whose colon is as colon_after_label says.
C9_ConformingTokenNoError ==
    Checked => \A t \in LintTokens : Conforms(t) => ErrorsAt(t) = {}

\* A conforming token that matches the pattern of a second style as well
\* has been checked.
C9_ConformingInTwoStyles ==
    /\ Checked
    /\ \E t \in LintTokens : Conforms(t) /\ Cardinality(MatchedStyles(NameOf(t))) > 1

\* C10: for every token that does not conform, check returns Err with an
\* error of exactly the token's span; if the case is what does not conform,
\* that error's case error holds the required style and, as found style,
\* None when no pattern matches the text and else a different style whose
\* pattern matches it.
C10_NonConformingTokenReported ==
    Checked =>
        \A t \in LintTokens : ~Conforms(t) =>
            /\ pc = "err"
            /\ \E i \in ErrorsAt(t) :
                  ~CaseConforms(t) =>
                      LET e == errors[i].case_style_error
                      IN  /\ ~e.ok
                          /\ e.err[1][1] = RequiredStyle(t)
                          /\ IF MatchedStyles(NameOf(t)) = {}
                             THEN e.err[1][2] = None
                             ELSE /\ e.err[1][2] # None
                                  /\ e.err[1][2][1] \in
                                         MatchedStyles(NameOf(t)) \ {RequiredStyle(t)}

\* check has returned for a file with a token that matches no pattern, a
\* token that matches another style only, and a label whose colon alone is
\* wrong.
C10_EveryKindOfViolation ==
    /\ Checked
    /\ \E t \in LintTokens : ~CaseConforms(t) /\ MatchedStyles(NameOf(t)) = {}
    /\ \E t \in LintTokens : ~CaseConforms(t) /\ MatchedStyles(NameOf(t)) # {}
    /\ \E t \in LintTokens : CaseConforms(t) /\ ~ColonConforms(t)

-----------------------------------------------------------------------------
(* Linter::accept, one item of the program at a time *)

MaxLintItems == 3

\* accept, lines 55-64: the visitor method of the item's kind.
visit_line(st, line) ==
    CASE line.kind = "Comment" -> visit_comment
      [] line.kind = "Instruction" -> visit_instruction(st, line)
      [] line.kind = "Directive" -> visit_directive(st, line)
      [] line.kind = "EOL" -> visit_eol(st, line)

\* A loop that checks no further item once an error has been found.
accept_step_until_error(st, errs, line) ==
    IF errs # <<>> THEN errs ELSE errs \o visit_line(st, line)

\* accept, lines 55-65: errors.append(&mut res).
accept_step(st, errs, line) == errs \o visit_line(st, line)

VisitTokens ==
    {LabelToken(<<"a">>, TRUE), LabelToken(<<"A">>, FALSE), Token("Cmt2")}
    \cup {[Token("NOT") EXCEPT !.content = m] : m \in {<<"n", "o", "t">>, <<"N", "o", "t">>}}
    \cup {[Token("END") EXCEPT !.content = d] :
              d \in {<<".", "e", "n", "d">>, <<".", "E", "N", "D">>}}

InitVisit ==
    /\ copy = "processed_ast"
    /\ hybrid_inline_comment = TRUE
    /\ \E l \in CommentLayouts(VisitTokens, MaxLintItems) :
          /\ file_content = SourceText(l)
          /\ program = RawProgram(l)
    /\ label_buffer = <<>>
    /\ forward_next_comment = TRUE
    /\ labelled_items = <<>>
    /\ res = <<>>
    /\ idx = 1
    /\ items = <<>>
    /\ pc = "source"
    /\ FormatterIdle
    /\ lint_style \in LintStyles
    /\ errors = <<>>
    /\ ExtrasIdle

\* accept, lines 54-66: one turn of `for line in self.program.items()`.
Visit ==
    /\ pc = "ast"
    /\ idx <= Len(items)
    /\ errors' = accept_step(lint_style, errors, items[idx])
    /\ idx' = idx + 1
    /\ UNCHANGED <<xvars, copy, hybrid_inline_comment, file_content, program, label_buffer,
                   forward_next_comment, labelled_items, res, items, pc,
                   fvars, lint_style>>

\* accept, lines 67-71: the loop is over.
Return ==
    /\ pc = "ast"
    /\ idx > Len(items)
    /\ pc' = IF errors = <<>> THEN "ok" ELSE "err"
    /\ UNCHANGED <<xvars, tvars, fvars, lvars>>

NextVisit ==
    \/ GetAst
    \/ Visit
    \/ Return

SpecVisit == InitVisit /\ [][NextVisit]_vars

\* The violations of the first n items, each item checked by itself.
ViolationsOfFirst(n) ==
    Flatten([j \in 1..n |-> visit_line(lint_style, items[j])])

\* C11: while check runs, the errors are those of the items visited so far,
\* in item order, every turn of the loop visits the next item; when it
\* returns, every item has been visited, the list holds the violations of
\* all the items and the result is Ok exactly when no item has a violation.
C11_NoShortCircuit ==
    /\ pc = "ast" =>
          /\ idx \in 1..(Len(items) + 1)
          /\ errors = ViolationsOfFirst(idx - 1)
    /\ Checked =>
          /\ idx = Len(items) + 1
          /\ errors = ViolationsOfFirst(Len(items))
          /\ errors = accept(lint_style, items)
          /\ pc = "ok" <=> \A j \in 1..Len(items) : visit_line(lint_style, items[j]) = <<>>

\* check has returned for a program with violations in two items and with
\* a comment item.
C11_ViolationsInTwoItems ==
    /\ Checked
    /\ \E i, j \in 1..Len(items) :
          /\ i < j
          /\ visit_line(lint_style, items[i]) # <<>>
          /\ visit_line(lint_style, items[j]) # <<>>
    /\ \E k \in 1..Len(items) : items[k].kind = "Comment"

-----------------------------------------------------------------------------
(* LineColumnLookTable on any text and any offset of it *)

MaxTextLen == 4

\* The texts of up to n characters: a letter, line feeds, carriage returns.
Texts(n) == UNION {[1..k -> {"a", "\n", "\r"}] : k \in 0..n}

InitLookup ==
    /\ copy = "processed_ast"
    /\ hybrid_inline_comment = TRUE
    /\ file_content \in Texts(MaxTextLen)
    /\ program = <<>>
    /\ label_buffer = <<>>
    /\ forward_next_comment = TRUE
    /\ labelled_items = <<>>
    /\ res = <<>>
    /\ idx = 1
    /\ items = <<>>
    /\ pc = "table"
    /\ FormatterIdle
    /\ LinterIdle
    /\ \E o \in 0..(Len(file_content) - 1) : lookup_span = Span(o, o + 1)
    /\ line_column = <<>>
    /\ CliIdle
    /\ PadIdle
    /\ BrIdle

\* LineColumnLookTable::new(file_content).get_line_and_column(span): one of
\* the results the order of the hash map gives, or unreachable!().
GetLineAndColumn ==
    /\ pc = "table"
    /\ LET found == LineColumnsOf(LookTable(file_content), lookup_span)
       IN  \/ /\ found = {}
              /\ pc' = "panic"
              /\ UNCHANGED line_column
           \/ /\ \E lc \in found : line_column' = Some(lc)
              /\ pc' = "found"
    /\ UNCHANGED <<cvars, pvars, bvars, tvars, fvars, lvars, lookup_span>>

NextLookup == GetLineAndColumn

SpecLookup == InitLookup /\ [][NextLookup]_vars

\* Number of line feeds among the first n characters of the text.
LineBreaksBefore(text, n) == Cardinality({i \in 1..n : text[i] = "\n"})

\* Offset of the first character after the last line feed among the first n
\* characters, 0 if there is none.
LineStartBefore(text, n) ==
    IF \E i \in 1..n : text[i] = "\n"
    THEN CHOOSE i \in 1..n : text[i] = "\n" /\ \A j \in (i + 1)..n : text[j] # "\n"
    ELSE 0

\* C12: the lookup of an offset of the text returns, with the line 1 + the
\* number of line breaks before the offset and the column offset - (start
\* of that line) + 1.
C12_ExactLineColumn ==
    pc # "table" =>
        /\ pc = "found"
        /\ line_column =
              Some([line |-> 1 + LineBreaksBefore(file_content, lookup_span.start),
                    column |-> lookup_span.start
                               - LineStartBefore(file_content, lookup_span.start) + 1])

\* A lookup on the second line of a text has been made.
C12_SecondLine ==
    /\ pc # "table"
    /\ LineBreaksBefore(file_content, lookup_span.start) > 0

-----------------------------------------------------------------------------
(* The binaries: fmt.rs main and bin/lint.rs main over the files of a run *)

MaxFiles == 2

\* bin/lint.rs DEFAULT_STYLE.
DefaultLintStyle ==
    [colon_after_label |-> FALSE, label_style |-> "ScreamingSnakeCase",
     instruction_style |-> "ScreamingSnakeCase",
     directive_style |-> "ScreamingSnakeCase"]

\* The texts of the files: the empty file, "RET", "ret" and "A:" on two
\* lines, and "NOT" without operands, which the grammar refuses.
CliTexts ==
    {<<>>,
     <<"R", "E", "T">>,
     <<"r", "e", "t", "\n", "A", ":">>,
     <<"N", "O", "T">>}

\* A file of the run: its content, the content it had when the run began,
\* and whether fs::read_to_string and fs::write succeed on it.
CliFiles ==
    {[content |-> t, original |-> t, status |-> s] :
        t \in CliTexts, s \in {"ok", "unreadable", "read_only"}}

\* What has been run on a file the loop has visited.
NotRun ==
    [read |-> FALSE, parsed |-> FALSE, transformed |-> FALSE, formatted |-> FALSE,
     linted |-> FALSE, wrote |-> FALSE, items |-> <<>>, bytes |-> <<>>, errors |-> <<>>]

\* format_file that goes on after a syntax error with an empty program.
format_file_after_syntax_error(st, content) ==
    LET p == Parse(content)
        t == transform("fmt_ast", TRUE, content, p.items)
    IN  [parsed |-> p.ok, panic |-> t.panic, transformed |-> TRUE, formatted |-> ~t.panic,
         items |-> t.items,
         formatter |-> IF t.panic THEN None ELSE Some(format(st, <<>>, t.items))]

\* fmt.rs format_file: None after a syntax error (print_error is called),
\* else Some(formatter) with the file formatted.
format_file(st, content) ==
    LET p == Parse(content)
        t == transform("fmt_ast", TRUE, content, p.items)
    IN  IF ~p.ok
        THEN [parsed |-> FALSE, panic |-> FALSE, transformed |-> FALSE,
              formatted |-> FALSE, items |-> <<>>, formatter |-> None]
        ELSE [parsed |-> TRUE, panic |-> t.panic, transformed |-> TRUE,
              formatted |-> ~t.panic, items |-> t.items,
              formatter |-> IF t.panic THEN None ELSE Some(format(st, <<>>, t.items))]

\* A check that finds no file different.
check_file_diff_never(content, formatted) == FALSE

\* fmt.rs check_file_diff: is_diff. The diff of two texts has a change as
\* soon as one of them is not empty, so is_diff is formatted != file_content.
check_file_diff(content, formatted) == formatted # content

\* bin/lint.rs check_syntax_error: get_ast, and print_error on Err.
check_syntax_error(content) ==
    LET p == Parse(content)
        t == transform("processed_ast", TRUE, content, p.items)
    IN  IF ~p.ok
        THEN [parsed |-> FALSE, panic |-> FALSE, transformed |-> FALSE, program |-> None]
        ELSE [parsed |-> TRUE, panic |-> t.panic, transformed |-> TRUE,
              program |-> IF t.panic THEN None ELSE Some(t.items)]

\* A write_file that counts the file as formatted whether fs::write
\* succeeded or not.
write_file_counts_every_call(file, bytes, count) ==
    IF file.status = "read_only"
    THEN [file |-> file, count |-> count + 1, wrote |-> FALSE]
    ELSE [file |-> [file EXCEPT !.content = bytes], count |-> count + 1, wrote |-> TRUE]

\* fmt.rs write_file: the file and FORMATTED_COUNT after the call.
write_file(file, bytes, count) ==
    IF file.status = "read_only"
    THEN [file |-> file, count |-> count, wrote |-> FALSE]
    ELSE [file |-> [file EXCEPT !.content = bytes], count |-> count + 1, wrote |-> TRUE]

InitCli ==
    /\ copy = "processed_ast"
    /\ hybrid_inline_comment = TRUE
    /\ file_content = <<>>
    /\ program = <<>>
    /\ label_buffer = <<>>
    /\ forward_next_comment = TRUE
    /\ labelled_items = <<>>
    /\ res = <<>>
    /\ idx = 1
    /\ items = <<>>
    /\ pc = "cli"
    /\ FormatterIdle
    /\ lint_style = DefaultLintStyle
    /\ errors = <<>>
    /\ LookupIdle
    /\ PadIdle
    /\ BrIdle
    /\ tool \in {"fmt", "lint"}
    /\ CHECK_MODE \in (IF tool = "fmt" THEN BOOLEAN ELSE {FALSE})
    /\ print_config \in BOOLEAN
    /\ files \in UNION {[1..k -> CliFiles] : k \in 0..MaxFiles}
    /\ path_idx = 1
    /\ FORMATTED_COUNT = 0
    /\ FILE_DIFF_COUNT = 0
    /\ success = TRUE
    /\ exit_code = None
    /\ output = <<>>
    /\ results = <<>>

\* get_from_cli (fmt.rs) and main, lines 59-103 (bin/lint.rs): the flags and
\* the style are read, print_style is called under --print-config.
GetFromCli ==
    /\ pc = "cli"
    /\ output' = IF print_config THEN <<<<"config">>>> ELSE <<>>
    /\ pc' = "files"
    /\ UNCHANGED <<tvars, fvars, lvars, kvars, pvars, bvars, tool, CHECK_MODE, print_config, files,
                   path_idx, FORMATTED_COUNT, FILE_DIFF_COUNT, success, exit_code,
                   results>>

\* fmt.rs main, lines 31-59: one file of file_path.
FormatPath ==
    /\ pc = "files"
    /\ tool = "fmt"
    /\ path_idx <= Len(files)
    /\ path_idx' = path_idx + 1
    /\ LET f == files[path_idx]
       IN  IF f.status = "unreadable"
           THEN /\ output' = Append(output, <<"read_error", path_idx>>)
                /\ results' = Append(results, NotRun)
                /\ pc' = pc
                /\ UNCHANGED <<files, FORMATTED_COUNT, FILE_DIFF_COUNT, exit_code>>
           ELSE \E r \in {format_file(style, f.content)} :
                LET seen == [NotRun EXCEPT !.read = TRUE, !.parsed = r.parsed,
                                           !.transformed = r.transformed,
                                           !.formatted = r.formatted,
                                           !.items = r.items, !.bytes = r.formatter]
                IN  IF r.panic
                    THEN /\ pc' = "panic"
                         /\ exit_code' = Some(101)
                         /\ results' = Append(results, seen)
                         /\ UNCHANGED <<files, FORMATTED_COUNT, FILE_DIFF_COUNT, output>>
                    ELSE IF r.formatter = None
                    THEN /\ output' = Append(output, <<"syntax_error", path_idx>>)
                         /\ results' = Append(results, seen)
                         /\ pc' = pc
                         /\ UNCHANGED <<files, FORMATTED_COUNT, FILE_DIFF_COUNT, exit_code>>
                    ELSE IF CHECK_MODE
                    THEN /\ IF check_file_diff(f.content, r.formatter[1])
                            THEN /\ output' = Append(output, <<"diff", path_idx>>)
                                 /\ FILE_DIFF_COUNT' = FILE_DIFF_COUNT + 1
                            ELSE UNCHANGED <<output, FILE_DIFF_COUNT>>
                         /\ results' = Append(results, seen)
                         /\ pc' = pc
                         /\ UNCHANGED <<files, FORMATTED_COUNT, exit_code>>
                    ELSE \E w \in {write_file(f, r.formatter[1], FORMATTED_COUNT)} :
                         /\ files' = [files EXCEPT ![path_idx] = w.file]
                         /\ FORMATTED_COUNT' = w.count
                         /\ output' = IF w.wrote THEN output
                                      ELSE Append(output, <<"write_error", path_idx>>)
                         /\ results' = Append(results, [seen EXCEPT !.wrote = w.wrote])
                         /\ pc' = pc
                         /\ UNCHANGED <<FILE_DIFF_COUNT, exit_code>>
    /\ UNCHANGED <<tvars, fvars, lvars, kvars, pvars, bvars, tool, CHECK_MODE, print_config, success>>

\* The diagnostics of the errors of a file, one per error.
Diagnostics(i, errs) == [k \in 1..Len(errs) |-> <<"lint_error", i, errs[k].span.start>>]

\* bin/lint.rs main, lines 107-148: one file of file_path (VERBOSE_MODE off).
LintPath ==
    /\ pc = "files"
    /\ tool = "lint"
    /\ path_idx <= Len(files)
    /\ path_idx' = path_idx + 1
    /\ LET f == files[path_idx]
       IN  IF f.status = "unreadable"
           THEN /\ results' = Append(results, NotRun)
                /\ pc' = pc
                /\ UNCHANGED <<output, success, exit_code>>
           ELSE \E r \in {check_syntax_error(f.content)} :
                LET seen == [NotRun EXCEPT !.read = TRUE, !.parsed = r.parsed,
                                           !.transformed = r.transformed]
                IN  IF r.panic
                    THEN /\ pc' = "panic"
                         /\ exit_code' = Some(101)
                         /\ results' = Append(results, seen)
                         /\ UNCHANGED <<output, success>>
                    ELSE IF r.program = None
                    THEN /\ output' = Append(output, <<"syntax_error", path_idx>>)
                         /\ results' = Append(results, seen)
                         /\ pc' = pc
                         /\ UNCHANGED <<success, exit_code>>
                    ELSE \E errs \in {accept(lint_style, r.program[1])} :
                         /\ output' = output \o Diagnostics(path_idx, errs)
                         /\ success' = (success /\ errs = <<>>)
                         /\ results' = Append(results,
                                [seen EXCEPT !.linted = TRUE, !.items = r.program[1],
                                             !.errors = errs])
                         /\ pc' = pc
                         /\ UNCHANGED exit_code
    /\ UNCHANGED <<tvars, fvars, lvars, kvars, pvars, bvars, tool, CHECK_MODE, print_config, files,
                   FORMATTED_COUNT, FILE_DIFF_COUNT>>

\* fmt.rs main, lines 61-74, and bin/lint.rs main, lines 150-152: the loop
\* is over, the process exits.
Exit ==
    /\ pc = "files"
    /\ path_idx > Len(files)
    /\ pc' = "exit"
    /\ IF tool = "fmt"
       THEN /\ output' = IF CHECK_MODE THEN output
                         ELSE Append(output, <<"formatted", FORMATTED_COUNT>>)
            /\ exit_code' = Some(IF FILE_DIFF_COUNT > 0 THEN 1 ELSE 0)
       ELSE /\ output' = output
            /\ exit_code' = Some(IF ~success THEN 1 ELSE 0)
    /\ UNCHANGED <<tvars, fvars, lvars, kvars, pvars, bvars, tool, CHECK_MODE, print_config, files,
                   path_idx, FORMATTED_COUNT, FILE_DIFF_COUNT, success, results>>

NextCli ==
    \/ GetFromCli
    \/ FormatPath
    \/ LintPath
    \/ Exit

SpecCli == InitCli /\ [][NextCli]_vars

-----------------------------------------------------------------------------
(* C13, C14, C15, C17, C18 *)

\* The grammar refuses the file the run read at place i.
SyntaxErrorFile(i) ==
    files[i].status # "unreadable" /\ ~Parse(files[i].original).ok

\* How many times the run has printed the event e.
Printed(e) == Cardinality({k \in 1..Len(output) : output[k] = e})

\* C13: on a file with a syntax error neither transform, formatter nor
\* linter is run, the file is not written and one syntax diagnostic is
\* printed for it; the run does not stop, and at its end every file has been
\* visited and every readable file without syntax error has been formatted
\* or linted.
C13_SyntaxErrorStopsOneFile ==
    /\ pc # "panic"
    /\ \A i \in 1..Len(results) : SyntaxErrorFile(i) =>
          /\ results[i].read
          /\ ~results[i].transformed
          /\ ~results[i].formatted
          /\ ~results[i].linted
          /\ ~results[i].wrote
          /\ files[i].content = files[i].original
          /\ Printed(<<"syntax_error", i>>) = 1
    /\ pc = "exit" =>
          /\ Len(results) = Len(files)
          /\ \A i \in 1..Len(files) :
                (files[i].status # "unreadable" /\ ~SyntaxErrorFile(i)) =>
                    IF tool = "fmt" THEN results[i].formatted ELSE results[i].linted

\* A run has ended whose first file had a syntax error and whose second
\* file was formatted and written.
C13_ErrorThenGoodFile ==
    /\ pc = "exit"
    /\ Len(files) >= 2
    /\ SyntaxErrorFile(1)
    /\ results[2].formatted
    /\ results[2].wrote

\* The file at place i fails the formatting check, or fails linting.
Fails(i) ==
    IF tool = "fmt"
    THEN /\ CHECK_MODE
         /\ results[i].bytes # None
         /\ results[i].bytes[1] # files[i].original
    ELSE results[i].errors # <<>>

C15_PrintConfigOnly ==
    print_config =>
        \A i \in 1..Len(results) :
            /\ ~results[i].read
            /\ ~results[i].formatted
            /\ ~results[i].wrote
            /\ ~results[i].linted
            /\ files[i].content = files[i].original

\* A run under --print-config has ended, the configuration was printed.
C15_ConfigPrinted ==
    /\ pc = "exit"
    /\ print_config
    /\ Len(files) > 0
    /\ Printed(<<"config">>) = 1

\* C17: an empty file that is read parses and transforms to a program
\* without items; the formatter produces no byte for it, in check mode it
\* does not differ and else it is written empty; the linter reports no
\* error for it.
C17_EmptyFile ==
    \A i \in 1..Len(results) : (files[i].original = <<>> /\ results[i].read) =>
        /\ results[i].parsed
        /\ results[i].transformed
        /\ results[i].items = <<>>
        /\ IF tool = "fmt"
           THEN /\ results[i].bytes = Some(<<>>)
                /\ files[i].content = <<>>
                /\ Printed(<<"diff", i>>) = 0
           ELSE /\ results[i].linted
                /\ results[i].errors = <<>>
                /\ \A k \in 1..Len(output) : ~(output[k][1] = "lint_error" /\ output[k][2] = i)

\* A run has ended that visited an empty file after a file that is not
\* empty.
C17_EmptyFileVisited ==
    /\ pc = "exit"
    /\ Len(files) >= 2
    /\ files[1].original # <<>>
    /\ results[1].parsed
    /\ files[2].original = <<>>
    /\ results[2].read

\* The files whose write succeeded.
Written == {i \in 1..Len(results) : results[i].wrote}

\* C18: in check mode no file is written and no count of formatted files
\* is printed; outside check mode every parsed file whose write succeeds
\* holds the formatted bytes, every other file is as it was,
\* FORMATTED_COUNT is the number of successful writes and is the count the
\* run prints at its end.
C18_WritesOutsideCheckModeOnly ==
    tool = "fmt" =>
        /\ \A i \in (Len(results) + 1)..Len(files) : files[i].content = files[i].original
        /\ FORMATTED_COUNT = Cardinality(Written)
        /\ IF CHECK_MODE
           THEN /\ Written = {}
                /\ \A i \in 1..Len(files) : files[i].content = files[i].original
                /\ \A k \in 1..Len(output) : output[k][1] \notin {"formatted", "write_error"}
           ELSE /\ \A i \in 1..Len(results) :
                      /\ results[i].wrote <=> (results[i].formatted /\ files[i].status = "ok")
                      /\ files[i].content = IF results[i].wrote THEN results[i].bytes[1]
                                            ELSE files[i].original
                /\ pc = "exit" => output[Len(output)] = <<"formatted", Cardinality(Written)>>

\* A run outside check mode has ended that wrote a file with new bytes and
\* failed to write another.
C18_WriteAndFailedWrite ==
    /\ pc = "exit"
    /\ tool = "fmt"
    /\ ~CHECK_MODE
    /\ \E i \in Written : files[i].content # files[i].original
    /\ \E i \in 1..Len(results) : results[i].formatted /\ ~results[i].wrote

-----------------------------------------------------------------------------
(* One Formatter formatting a program, and then a second program *)

MaxReuseItems == 3

ReuseTokens == {Token(v) : v \in {"La", "RET", "NOT", "Cmt2"}}

\* The formatter programs of the texts of up to n items.
FormatterPrograms(n) ==
    {transform("fmt_ast", TRUE, SourceText(l), RawProgram(l)).items :
        l \in CommentLayouts(ReuseTokens, n)}

\* Formatter::new(style): an empty buffer, no format call yet.
InitReuse ==
    /\ copy = "fmt_ast"
    /\ hybrid_inline_comment = TRUE
    /\ file_content = <<>>
    /\ program = <<>>
    /\ label_buffer = <<>>
    /\ forward_next_comment = TRUE
    /\ labelled_items = <<>>
    /\ res = <<>>
    /\ idx = 1
    /\ items = <<>>
    /\ pc = "new"
    /\ style \in Styles
    /\ buffer = <<>>
    /\ pass = 1
    /\ first = <<>>
    /\ program1 = <<>>
    /\ LinterIdle
    /\ ExtrasIdle

\* formatter.format(program) on the new Formatter; first keeps what
\* contents() returns after it.
Format ==
    /\ pc = "new"
    /\ \E p \in FormatterPrograms(MaxReuseItems) :
          /\ items' = p
          /\ program1' = p
          /\ \E b \in {format(style, buffer, p)} :
                /\ buffer' = b
                /\ first' = b
    /\ pc' = "formatted"
    /\ UNCHANGED <<xvars, copy, hybrid_inline_comment, file_content, program,
                   label_buffer, forward_next_comment, labelled_items, res, idx,
                   style, pass, lvars>>

\* formatter.format(program) on the same Formatter, for a second program.
FormatAgain ==
    /\ pc = "formatted"
    /\ pass = 1
    /\ \E p \in FormatterPrograms(MaxReuseItems) :
          /\ items' = p
          /\ buffer' = format(style, buffer, p)
    /\ pass' = 2
    /\ UNCHANGED <<xvars, copy, hybrid_inline_comment, file_content, program,
                   label_buffer, forward_next_comment, labelled_items, res, idx,
                   style, first, program1, lvars, pc>>

\* Formatter::new(style) for the next program: another Formatter.
NewFormatter ==
    /\ pc = "formatted"
    /\ buffer' = <<>>
    /\ pass' = 1
    /\ first' = <<>>
    /\ program1' = <<>>
    /\ items' = <<>>
    /\ pc' = "new"
    /\ UNCHANGED <<xvars, copy, hybrid_inline_comment, file_content, program,
                   label_buffer, forward_next_comment, labelled_items, res, idx,
                   style, lvars>>

NextReuse ==
    \/ Format
    \/ FormatAgain
    \/ NewFormatter

SpecReuse == InitReuse /\ [][NextReuse]_vars

-----------------------------------------------------------------------------
(* C16 *)

\* C16: after format(P) the bytes contents() returns are those a new
\* Formatter of the same style gives for P, whatever was formatted before by
\* this Formatter or by another one.
C16_PureFunction ==
    pc = "formatted" => buffer = format(style, <<>>, items)

\* A second program has been formatted by a Formatter whose first program
\* gave bytes.
C16_SecondProgram ==
    pc = "formatted" /\ pass = 2 /\ first # <<>> /\ items # program1

-----------------------------------------------------------------------------
(* Formatter::format, one line of its two loops at a time *)

MaxPadItems == 4

PadTokens == {Token(v) : v \in {"La", "Lb", "RET", "ORIG", "FILL", "END", "Cmt2"}}

\* Every vertical rule has a value of its own.
PadStyle ==
    [indent_directive |-> 1, indent_instruction |-> 1, indent_label |-> 0,
     indent_min_comment_from_block |-> 1, space_block_to_comment |-> 2,
     space_comment_stick_to_body |-> 1, space_from_label_block |-> 3,
     space_from_start_end_block |-> 4, colon_after_label |-> TRUE]

PadStyles == {DefaultStyle, NoColonStyle, FlatStyle, PadStyle}

\* The layouts with every item on a line of its own.
LineLayouts(V, n) == {l \in Layouts(V, n) : \A i \in 1..Len(l) : ~l[i].same}

RECURSIVE TrailingLineFeeds(_)
\* The number of line feeds the text ends with.
TrailingLineFeeds(text) ==
    IF text # <<>> /\ text[Len(text)] = "\n"
    THEN 1 + TrailingLineFeeds(SubSeq(text, 1, Len(text) - 1))
    ELSE 0

\* A new Formatter and the program of a file, as format_file builds them.
InitPad ==
    /\ copy = "fmt_ast"
    /\ hybrid_inline_comment = TRUE
    /\ \E l \in LineLayouts(PadTokens, MaxPadItems) :
          /\ file_content = SourceText(l)
          /\ program = RawProgram(l)
          /\ \E t \in {transform("fmt_ast", TRUE, SourceText(l), RawProgram(l))} :
                /\ ~t.panic
                /\ items = t.items
    /\ label_buffer = <<>>
    /\ forward_next_comment = TRUE
    /\ labelled_items = <<>>
    /\ res = <<>>
    /\ idx = 1
    /\ pc = "lines"
    /\ style \in PadStyles
    /\ buffer = <<>>
    /\ pass = 1
    /\ first = <<>>
    /\ program1 = <<>>
    /\ LinterIdle
    /\ LookupIdle
    /\ CliIdle
    /\ PadIdle
    /\ BrIdle

\* format, lines 43-51: one turn of the first loop.
PushLine ==
    /\ pc = "lines"
    /\ idx <= Len(items)
    /\ fmt_lines' = Append(fmt_lines, format_line(style, items, idx))
    /\ idx' = idx + 1
    /\ UNCHANGED <<kvars, cvars, bvars, newlines_after, copy, hybrid_inline_comment,
                   file_content, program, label_buffer, forward_next_comment,
                   labelled_items, res, items, fvars, lvars, pc>>

\* format, lines 53-54: the first loop is over.
CommentStartColumn ==
    /\ pc = "lines"
    /\ idx > Len(items)
    /\ pc' = "emit"
    /\ UNCHANGED <<xvars, tvars, fvars, lvars>>

\* format, lines 56-76: one turn of the second loop.
EmitLine ==
    /\ pc = "emit"
    /\ Len(newlines_after) < Len(fmt_lines)
    /\ \E b \in {buffer \o emit_line(comment_start_column(style, fmt_lines),
                                     fmt_lines[Len(newlines_after) + 1])} :
          /\ buffer' = b
          /\ newlines_after' = Append(newlines_after, TrailingLineFeeds(b))
    /\ UNCHANGED <<kvars, cvars, bvars, fmt_lines, tvars, style, pass, first, program1,
                   lvars, pc>>

NextPad ==
    \/ PushLine
    \/ CommentStartColumn
    \/ EmitLine

SpecPad == InitPad /\ [][NextPad]_vars

-----------------------------------------------------------------------------
(* C19, C20 *)

is_statement(item) == is_instruction(item) \/ is_directive(item)

\* What the first three rules add after current, each taken alone.
RuleCommentStickToBody(st, current, next) ==
    IF is_comment(current) /\ is_statement(next)
    THEN st.space_comment_stick_to_body ELSE 0

RuleBlockToComment(st, current, next) ==
    IF is_statement(current) /\ ~is_orig(current) /\ is_comment(next)
    THEN st.space_block_to_comment ELSE 0

RuleFromLabelBlock(st, current, next) ==
    IF /\ is_statement(current) /\ current.labels = <<>>
       /\ is_statement(next) /\ next.labels # <<>>
    THEN st.space_from_label_block ELSE 0

RulesSum(st, current, next) ==
    RuleCommentStickToBody(st, current, next)
    + RuleBlockToComment(st, current, next)
    + RuleFromLabelBlock(st, current, next)

\* The adjacent pairs whose current item has been written to the buffer.
WrittenPairs == {i \in 1..Len(newlines_after) : i + 1 <= Len(items)}

C20_StartEndBlock ==
    \A i \in WrittenPairs :
        newlines_after[i] =
            1 + RulesSum(style, items[i], items[i + 1])
              + (IF is_orig(items[i]) \/ is_end(items[i + 1])
                 THEN style.space_from_start_end_block ELSE 0)

\* An instruction before END has been written, and so has ORIG before END,
\* with a style that has the rule.
C20_InstructionBeforeEnd ==
    /\ style.space_from_start_end_block # 0
    /\ \E i \in WrittenPairs : is_instruction(items[i]) /\ is_end(items[i + 1])

\* Where current is a directive the rule is applied as stated.
StartEndBlockAfterDirective ==
    \A i \in WrittenPairs :
        is_directive(items[i]) =>
            newlines_after[i] =
                1 + RulesSum(style, items[i], items[i + 1])
                  + (IF is_orig(items[i]) \/ is_end(items[i + 1])
                     THEN style.space_from_start_end_block ELSE 0)

-----------------------------------------------------------------------------
(* C21, C22 *)

\* A single word of lowercase letters, and a word of lowercase letters and
\* underscores with at least one underscore.
AllLowercase(s) == s # <<>> /\ Range(s) \subseteq LowerChars

LowercaseWithUnderscore(s) ==
    /\ Range(s) \subseteq LowerChars \cup {"_"}
    /\ "_" \in Range(s)
    /\ s[1] \in LowerChars

CaseErrorsAt(t) == {i \in ErrorsAt(t) : ~errors[i].case_style_error.ok}

ColonErrorsAt(t) == {i \in ErrorsAt(t) : ~errors[i].colon_style_error.ok}

\* C21: once check has returned, a token that is one word of lowercase
\* letters bears no case error when SnakeCase is required of it and none
\* when LowerCamelCase is, and a lowercase token with an underscore bears a
\* case error when LowerCamelCase is required of it.
C21_LowercaseWordFitsBoth ==
    Checked =>
        \A t \in LintTokens :
            /\ (AllLowercase(NameOf(t))
                    /\ RequiredStyle(t) \in {"SnakeCase", "LowerCamelCase"})
                  => CaseErrorsAt(t) = {}
            /\ (LowercaseWithUnderscore(NameOf(t))
                    /\ RequiredStyle(t) = "LowerCamelCase")
                  => CaseErrorsAt(t) # {}

\* check has returned for a file where LowerCamelCase is required of a
\* lowercase word and of a lowercase token with an underscore.
C21_BothKindsUnderLowerCamel ==
    /\ Checked
    /\ \E t \in LintTokens :
          AllLowercase(NameOf(t)) /\ RequiredStyle(t) = "LowerCamelCase"
    /\ \E t \in LintTokens :
          LowercaseWithUnderscore(NameOf(t)) /\ RequiredStyle(t) = "LowerCamelCase"

LabelsOfFile == {t \in LintTokens : t.kind = "Label"}

\* C22: once check has returned, a label bears a colon error exactly when
\* its ending with ":" differs from colon_after_label, whatever its case; a
\* label of correct case and wrong colon bears one Error with the colon
\* error alone, and a label wrong in both bears one Error with both.
C22_ColonIndependentOfCase ==
    Checked =>
        \A t \in LabelsOfFile :
            /\ (ColonErrorsAt(t) # {}) <=> ~ColonConforms(t)
            /\ (CaseConforms(t) /\ ~ColonConforms(t)) =>
                  /\ Cardinality(ErrorsAt(t)) = 1
                  /\ CaseErrorsAt(t) = {}
            /\ (~CaseConforms(t) /\ ~ColonConforms(t)) =>
                  /\ Cardinality(ErrorsAt(t)) = 1
                  /\ CaseErrorsAt(t) = ColonErrorsAt(t)
                  /\ CaseErrorsAt(t) # {}

\* check has returned for a file with a label wrong in colon alone and a
\* label wrong in case and colon.
C22_ColonAloneAndBoth ==
    /\ Checked
    /\ \E t \in LabelsOfFile : CaseConforms(t) /\ ~ColonConforms(t)
    /\ \E t \in LabelsOfFile : ~CaseConforms(t) /\ ~ColonConforms(t)

\* The same for the labels whose name the classifier gives the required
\* style or a compatible one.
ColonIndependentOfCaseOutcome ==
    Checked =>
        \A t \in LabelsOfFile :
            LET case_ok == check_keyword_style(NameOf(t), RequiredStyle(t)).ok
            IN  /\ (ColonErrorsAt(t) # {}) <=> ~ColonConforms(t)
                /\ Cardinality(ErrorsAt(t)) <= 1
                /\ (CaseErrorsAt(t) # {}) <=> ~case_ok

-----------------------------------------------------------------------------
(* C23, C27, C28 *)

IsComment(x) == x.kind = "Comment"

\* The bodies of the standalone Comment items, in order.
CommentBodies(its) ==
    LET cs == SelectSeq(its, IsComment) IN [i \in 1..Len(cs) |-> cs[i].body]

\* The places of the program where a comment stands: as an item of its own,
\* and in the trailing-comment slot of a statement.
StandalonePlaces(c) == {k \in 1..Len(items) : IsComment(items[k]) /\ items[k].body = c}

SlotPlaces(c) == {k \in 1..Len(items) : IsStmt(items[k]) /\ items[k].comment = Some(c)}

\* Every statement and the trailing-labels item of its carries its labels as
\* in the program the transform gives with hybrid inline comments on.
LabelsAsEnabled(its) ==
    \A e \in Range(transform(copy, TRUE, file_content, program).items) :
        ~IsComment(e) =>
            \E k \in 1..Len(its) :
                /\ its[k].kind = e.kind
                /\ its[k].body = e.body
                /\ its[k].labels = e.labels

\* C23: with hybrid inline comments off, the program returned holds every
\* Comment item of the input as a standalone item, in order, no statement
\* has a trailing comment, and the statements carry the labels written
\* before them, as they do with hybrid inline comments on.
C23_NoMergeWhenDisabled ==
    (pc = "done" /\ ~hybrid_inline_comment) =>
        /\ CommentBodies(items) = SelectSeq(program, IsComment)
        /\ \A k \in 1..Len(items) : items[k].comment = None
        /\ \A k \in 1..Len(items) : IsStmt(items[k]) => StmtCarriesItsLabels(items[k])
        /\ EolIsTheTrailingLabels(items)
        /\ LabelsAsEnabled(items)

\* With hybrid inline comments off, a labelled statement with a comment on
\* its line has been transformed.
C23_LabelledStatementWithComment ==
    /\ pc = "done" /\ ~hybrid_inline_comment
    /\ \E k \in 1..(Len(items) - 1) :
          /\ IsStmt(items[k]) /\ items[k].labels # <<>>
          /\ IsComment(items[k + 1])
          /\ at_the_same_line(items[k + 1].lc, items[k].lc)

\* C27: when transform returns, the label accumulator is empty and
\* forward_next_comment is true; during the pass the flag is false only
\* after a statement has adopted the comment after it and before that
\* comment is examined.
C27_StateBackToInitial ==
    /\ pc \in {"collect", "done"} => (label_buffer = <<>> /\ forward_next_comment)
    /\ ~forward_next_comment =>
          /\ pc = "hybrid_comment"
          /\ idx >= 2
          /\ idx <= NumWindows(copy, Len(labelled_items))
          /\ IsStmt(labelled_items[idx - 1])
          /\ IsComment(labelled_items[idx])
          /\ at_the_same_line(labelled_items[idx].lc, labelled_items[idx - 1].lc)

\* transform has returned a program in which a statement adopted the comment
\* after it.
C27_AdoptedAndReturned ==
    /\ pc = "done"
    /\ \E k \in 1..Len(items) : IsStmt(items[k]) /\ items[k].comment # None

\* C28: in the program transform returns, every Comment item of the input
\* stands exactly once: as a standalone Comment item or in the
\* trailing-comment slot of one statement.
C28_CommentConservation ==
    pc = "done" =>
        \A p \in 1..Len(program) :
            IsComment(program[p]) =>
                Cardinality(StandalonePlaces(program[p]))
                    + Cardinality(SlotPlaces(program[p])) = 1

\* transform has returned for an input with a comment adopted by a statement
\* and a comment on a line of its own.
C28_AdoptedAndStandalone ==
    /\ pc = "done"
    /\ hybrid_inline_comment
    /\ \E p, q \in 1..Len(program) :
          /\ IsComment(program[p]) /\ SlotPlaces(program[p]) # {}
          /\ IsComment(program[q]) /\ SlotPlaces(program[q]) = {}

\* The state is back to its initial value when ast/processed_ast.rs returns,
\* and that copy keeps every comment.
ProcessedAstKeepsStateAndComments ==
    (pc = "done" /\ copy = "processed_ast") =>
        /\ label_buffer = <<>>
        /\ forward_next_comment
        /\ \A p \in 1..Len(program) :
              IsComment(program[p]) =>
                  Cardinality(StandalonePlaces(program[p]))
                      + Cardinality(SlotPlaces(program[p])) = 1

-----------------------------------------------------------------------------
(* parse_instruction on a Br pair: the condition codes of the mnemonic *)

MaxSuffixLen == 3

\* The mnemonics a Br pair may hold: "BR" in any case, then up to n
\* characters.
BrMnemonics(n) ==
    {b \o s : b \in {<<"B", "R">>, <<"b", "r">>, <<"B", "r">>, <<"b", "R">>},
              s \in UNION {[1..k -> {"n", "N", "z", "Z", "p", "P", "x"}] : k \in 0..n}}

\* str::strip_prefix("BR"): an Option.
strip_prefix_BR(text) ==
    IF Len(text) >= 2 /\ SubSeq(text, 1, 2) = <<"B", "R">>
    THEN Some(SubSeq(text, 3, Len(text))) ELSE None

contains(text, c) == c \in Range(text)

\* parse_instruction, Rule::BrInstruction, lines 352-382: the BrType, or
\* "unreachable" where unreachable!() is hit.
br_type(text) ==
    LET instruction_tp == strip_prefix_BR(to_uppercase(text))[1]
    IN  IF /\ contains(instruction_tp, "N") /\ contains(instruction_tp, "Z")
           /\ contains(instruction_tp, "P") THEN "Nzp"
        ELSE IF contains(instruction_tp, "N") /\ contains(instruction_tp, "Z") THEN "Nz"
        ELSE IF contains(instruction_tp, "N") /\ contains(instruction_tp, "P") THEN "Np"
        ELSE IF contains(instruction_tp, "Z") /\ contains(instruction_tp, "P") THEN "Zp"
        ELSE IF contains(instruction_tp, "N") THEN "N"
        ELSE IF contains(instruction_tp, "P") THEN "P"
        ELSE IF contains(instruction_tp, "Z") THEN "Z"
        ELSE IF instruction_tp = <<>> THEN "None"
        ELSE "unreachable"

InitBr ==
    /\ copy = "processed_ast"
    /\ hybrid_inline_comment = TRUE
    /\ file_content = <<>>
    /\ program = <<>>
    /\ label_buffer = <<>>
    /\ forward_next_comment = TRUE
    /\ labelled_items = <<>>
    /\ res = <<>>
    /\ idx = 1
    /\ items = <<>>
    /\ pc = "br"
    /\ FormatterIdle
    /\ LinterIdle
    /\ LookupIdle
    /\ CliIdle
    /\ PadIdle
    /\ mnemonic \in BrMnemonics(MaxSuffixLen)
    /\ br_tp = None

\* parse_instruction reaches Rule::BrInstruction and decodes the mnemonic.
DecodeBr ==
    /\ pc = "br"
    /\ br_tp' = Some(br_type(mnemonic))
    /\ pc' = IF br_type(mnemonic) = "unreachable" THEN "panic" ELSE "decoded"
    /\ UNCHANGED <<kvars, cvars, pvars, mnemonic, tvars, fvars, lvars>>

NextBr == DecodeBr

SpecBr == InitBr /\ [][NextBr]_vars

-----------------------------------------------------------------------------
(* C24 *)

\* The letters among N, Z, P the suffix holds, in either case, and the
\* variant that stands for a set of them.
SuffixOf(text) == SubSeq(text, 3, Len(text))

ConditionLetters(suffix) == Range(to_uppercase(suffix)) \cap {"N", "Z", "P"}

VariantOf(letters) ==
    CASE letters = {} -> "None"
      [] letters = {"N"} -> "N"
      [] letters = {"Z"} -> "Z"
      [] letters = {"P"} -> "P"
      [] letters = {"N", "Z"} -> "Nz"
      [] letters = {"Z", "P"} -> "Zp"
      [] letters = {"N", "P"} -> "Np"
      [] letters = {"N", "Z", "P"} -> "Nzp"

OnlyConditionLetters(suffix) == Range(to_uppercase(suffix)) \subseteq {"N", "Z", "P"}

\* C24: a decoded branch mnemonic has the variant of exactly the letters
\* among N, Z, P its suffix holds (None for a bare BR), in either case, and
\* a suffix with any other character is not decoded: unreachable!() is hit.
C24_BranchDecoding ==
    br_tp # None =>
        IF OnlyConditionLetters(SuffixOf(mnemonic))
        THEN br_tp = Some(VariantOf(ConditionLetters(SuffixOf(mnemonic))))
        ELSE br_tp = Some("unreachable")

\* A mnemonic of mixed case with two condition letters has been decoded.
C24_MixedCaseTwoLetters ==
    /\ br_tp # None
    /\ mnemonic = <<"b", "R", "n", "P">>

\* The suffixes of N, Z, P alone are decoded as stated, and a suffix with
\* none of the three letters hits unreachable!().
BranchDecodingOfConditionLetters ==
    br_tp # None =>
        /\ OnlyConditionLetters(SuffixOf(mnemonic))
              => br_tp = Some(VariantOf(ConditionLetters(SuffixOf(mnemonic))))
        /\ (SuffixOf(mnemonic) # <<>> /\ ConditionLetters(SuffixOf(mnemonic)) = {})
              => br_tp = Some("unreachable")

-----------------------------------------------------------------------------
(* C25, C26, C29: the lines of the formatted output *)

\* The text split at every line feed: one more piece than line feeds.
RECURSIVE Pieces(_, _)
Pieces(text, cur) ==
    IF text = <<>> THEN <<cur>>
    ELSE IF Head(text) = "\n" THEN <<cur>> \o Pieces(Tail(text), <<>>)
         ELSE Pieces(Tail(text), Append(cur, Head(text)))

IsBlank(line) == Range(line) \subseteq {" "}

NotBlank(line) == ~IsBlank(line)

RECURSIVE LeadingSpaces(_)
LeadingSpaces(line) ==
    IF line # <<>> /\ Head(line) = " " THEN 1 + LeadingSpaces(Tail(line)) ELSE 0

\* The lines of the output that hold text, in order.
OutputLines == SelectSeq(Pieces(buffer, <<>>), NotBlank)

\* What the lines of the output stand for, in order: the labels of an item,
\* one per line, then its body.
WrittenFor(item) ==
    [i \in 1..Len(item.labels) |-> [kind |-> "Label", of |-> item.labels[i]]]
    \o (IF item.kind = "EOL" THEN <<>> ELSE <<[kind |-> item.kind, of |-> item.body]>>)

ExpectedLines == Flatten([i \in 1..Len(items) |-> WrittenFor(items[i])])

\* format has returned.
AllWritten == pc = "emit" /\ Len(newlines_after) = Len(items)

\* C25: in the output of format, the body of ORIG and of END starts at the
\* first column, the body of every other directive after exactly
\* indent_directive spaces, the body of every instruction after exactly
\* indent_instruction spaces, and every label line after exactly
\* indent_label spaces.
C25_BodyIndentation ==
    AllWritten =>
        /\ Len(OutputLines) = Len(ExpectedLines)
        /\ \A j \in 1..Len(ExpectedLines) :
              LET e == ExpectedLines[j]
                  n == LeadingSpaces(OutputLines[j])
              IN  CASE e.kind = "Label" -> n = style.indent_label
                    [] e.kind = "Instruction" -> n = style.indent_instruction
                    [] e.kind = "Directive" ->
                          n = (IF e.of.type \in {"ORIG", "END"} THEN 0
                               ELSE style.indent_directive)
                    [] e.kind = "Comment" -> TRUE

\* An ORIG and a labelled directive other than ORIG and END have been
\* written with a style whose indents are not zero.
C25_OrigAndLabelledFill ==
    /\ AllWritten
    /\ style = NoColonStyle
    /\ \E k \in 1..Len(items) : is_orig(items[k])
    /\ \E k \in 1..Len(items) :
          is_directive(items[k]) /\ items[k].body.type = "FILL" /\ items[k].labels # <<>>

\* The text of a label line of the output.
LabelText(line) == SubSeq(line, LeadingSpaces(line) + 1, Len(line))

\* C26: in the output of format every label stands on a line of its own;
\* with colon_after_label its text is the label with a colon appended only
\* when it had none, without colon_after_label it is the label without its
\* trailing colon; printing the printed label again gives the same text,
\* and the linter finds no colon error in it under the same
\* colon_after_label.
C26_LabelColonNormalised ==
    AllWritten =>
        /\ Len(OutputLines) = Len(ExpectedLines)
        /\ \A j \in 1..Len(ExpectedLines) :
              ExpectedLines[j].kind = "Label" =>
                  LET content == ExpectedLines[j].of.content
                      text == LabelText(OutputLines[j])
                  IN  /\ text = (IF style.colon_after_label
                                 THEN (IF ends_with(content, ":") THEN content
                                       ELSE Append(content, ":"))
                                 ELSE strip_suffix_colon(content))
                      /\ print_label(style, [content |-> text]) = text
                      /\ check_label([DefaultLintStyle EXCEPT
                                         !.colon_after_label = style.colon_after_label],
                                     text).colon_error.ok

\* A label with a colon and a label without have been written without
\* colon_after_label.
C26_BothLabelsWithoutColonStyle ==
    /\ AllWritten
    /\ ~style.colon_after_label
    /\ \E j \in 1..Len(ExpectedLines) :
          ExpectedLines[j].kind = "Label" /\ ends_with(ExpectedLines[j].of.content, ":")
    /\ \E j \in 1..Len(ExpectedLines) :
          ExpectedLines[j].kind = "Label" /\ ~ends_with(ExpectedLines[j].of.content, ":")

\* C29: the output of format for a program that is not empty ends with the
\* last item's body line and exactly one line feed (for the trailing-labels
\* item, whose body is empty: the last label line, a line without text and
\* one line feed), whatever the style is.
C29_OneLineFeedAfterLastItem ==
    (AllWritten /\ items # <<>>) =>
        LET pieces == Pieces(buffer, <<>>)
            n == Len(pieces)
        IN  /\ n >= 2
            /\ pieces[n] = <<>>
            /\ IF items[Len(items)].kind = "EOL"
               THEN /\ IsBlank(pieces[n - 1])
                    /\ n >= 3
                    /\ NotBlank(pieces[n - 2])
               ELSE NotBlank(pieces[n - 1])

\* A program whose last item is a standalone comment after a statement has
\* been written with a style that has every blank-line rule.
C29_CommentLastWithRules ==
    /\ AllWritten
    /\ style = PadStyle
    /\ Len(items) >= 2
    /\ is_comment(items[Len(items)])
    /\ is_statement(items[Len(items) - 1])

\* The same for the programs whose last item is not ORIG.
OneLineFeedAfterLastUnlessOrig ==
    (AllWritten /\ items # <<>> /\ ~is_orig(items[Len(items)]))
        => C29_OneLineFeedAfterLastItem

-----------------------------------------------------------------------------
(* The look-up table's ranges and the order of the visit *)

\* The offsets that the entry's test accepts: [start_index, start_index + len).
RangeOf(table, e) ==
    e.start_index .. (e.start_index + Len(table.lines[e.line_number]) - 1)

\* C30: the ranges stored by LineColumnLookTable::new are pairwise disjoint
\* and their keys distinct, so that every offset is matched by at most one
\* entry and get_line_and_column returns the same (line, column) in
\* whatever order the entries are visited.
C30_OrderIndependent ==
    LET table == LookTable(file_content)
        entries == table.line_start_indices
    IN  /\ \A e \in entries : \A f \in entries :
               e # f => /\ e.start_index # f.start_index
                        /\ RangeOf(table, e) \cap RangeOf(table, f) = {}
        /\ \A o \in 0..Len(file_content) :
               Cardinality(LineColumnsOf(table, Span(o, o + 1))) <= 1
        /\ pc = "found" =>
               LineColumnsOf(table, lookup_span) = {line_column[1]}

\* A lookup has returned a position of the third line of a text, whose table
\* holds three entries, empty lines among them.
C30_ThirdOfThreeEntries ==
    /\ pc = "found"
    /\ Cardinality(LookTable(file_content).line_start_indices) = 3
    /\ line_column[1].line = 3

====
